---- MODULE Spec2Model ----
(***************************************************************************)
(* Model of the drift-corrected beat scheduler (MetronomeTimer) of the     *)
(* pitch trainer, of the host timer table it schedules its wake-ups in,    *)
(* and of the VisualMetronome component that drives it; of the capture and *)
(* analysis pipeline (AudioProcessor) with its smoothing, of the           *)
(* VoiceMonitor component that owns it, and of the frequency estimator     *)
(* (PitchDetector).                                                        *)
(*                                                                         *)
(* Time is the host clock (Date.now()) in milliseconds.  The tempos of the *)
(* model are divisors of 60000, so that (60 / bpm) * 1000 is a whole       *)
(* number of milliseconds and the scheduler's arithmetic is exact.         *)
(***************************************************************************)
EXTENDS Integers, Sequences, FiniteSets, TLC

VARIABLES
    now,        \* Date.now(): the host clock, ms
    timer,      \* the fields of the MetronomeTimer object
    timeouts,   \* the host's pending setTimeout entries of the scheduler: [id, due]
    op,         \* history: the last operation, the state it met, the onBeat calls it made
    phase,      \* history: "Stopped", "Running" or "Paused" (which call last cleared isRunning)
    sched,      \* history: the anchor of the running schedule and what happened since
    ui,         \* VisualMetronome: isActive, bpm, timeSignature
    hasTimer,   \* VisualMetronome: this.timer is not null
    storage,    \* localStorage: 'metronome-bpm' and 'metronome-time-signature'
    hidden      \* document.hidden

schedVars == <<now, timer, timeouts, op, phase, sched>>
uiVars == <<ui, hasTimer, storage, hidden>>

VARIABLES
    aps,        \* the AudioProcessor objects constructed so far: their fields
    frames,     \* the host's pending requestAnimationFrame entries: [id, owner]
    starts,     \* the start() calls that await getUserMedia
    media,      \* the host's audio: capture streams, audio contexts, gain levels
    pub,        \* history: the last operation on a pipeline and what it published
    vm,         \* VoiceMonitor: sessionActive, monitoringEnabled, audioProcessor, ...
    buffer,     \* the sample buffer handed to the estimator
    pitch       \* what the estimator made of it

pitchVars == <<aps, frames, starts, media, pub, vm, buffer, pitch>>
vars == <<now, timer, timeouts, op, phase, sched, ui, hasTimer, storage, hidden,
          aps, frames, starts, media, pub, vm, buffer, pitch>>

\* No pipeline, no component and no buffer: the scheduler on its own.
NoPitch ==
    /\ aps = <<>>
    /\ frames = {}
    /\ starts = {}
    /\ media = <<>>
    /\ pub = <<>>
    /\ vm = <<>>
    /\ buffer = <<>>
    /\ pitch = <<>>

-----------------------------------------------------------------------------
(* Bounds and input sets *)

\* The clock does not advance past this time (ms).
MaxTime == 5000

\* How far one Elapse step advances the clock (ms).
ElapseSteps == {500}

\* How long one onBeat callback may take (ms).
CallbackDurations == {0, 500}

\* The tempos the harness passes to the constructor and to updateBPM.
Tempos == {60, 120}

\* The beats per measure of the two time signatures, '4/4' and '8/8'.
Signatures == {4, 8}

\* null, for timeoutId (setTimeout never returns 0) and for expectedTime.
NullId == 0
NullTime == -1

Max(a, b) == IF a >= b THEN a ELSE b

-----------------------------------------------------------------------------
(* MetronomeTimer *)

\* (60 / bpm) * 1000
IntervalMs(bpm) == 60000 \div bpm

\* constructor(bpm, beatsPerMeasure, onBeat)
NewTimerBeatZero(bpm, beatsPerMeasure) ==
    [bpm |-> bpm, beatsPerMeasure |-> beatsPerMeasure, intervalMs |-> IntervalMs(bpm),
     expectedTime |-> NullTime, timeoutId |-> NullId, currentBeat |-> 0,
     isRunning |-> FALSE]

NewTimer(bpm, beatsPerMeasure) ==
    [bpm |-> bpm,
     beatsPerMeasure |-> beatsPerMeasure,
     intervalMs |-> IntervalMs(bpm),
     expectedTime |-> NullTime,
     timeoutId |-> NullId,
     currentBeat |-> 1,
     isRunning |-> FALSE]

\* The methods below are functions of an execution context x:
\*   x.self      the MetronomeTimer object (this)
\*   x.timeouts  the host's pending timeouts
\*   x.calls     the arguments of the onBeat calls made so far in this handler

\* setTimeout returns an id that no pending timeout has (the least one: the only
\* handle the scheduler keeps, timeoutId, is overwritten with the id returned).
FreshId(x) ==
    CHOOSE i \in 1..(Cardinality(x.timeouts) + 1) :
        /\ i \notin {e.id : e \in x.timeouts}
        /\ \A j \in 1..(i - 1) : j \in {e.id : e \in x.timeouts}

\* clearTimeout(id)
clearTimeout(x, id) == [x EXCEPT !.timeouts = {e \in @ : e.id # id}]

\* tick(): arm the next wake-up; `clock` is Date.now() when the delay is computed.
tick(x, clock) ==
    IF ~x.self.isRunning THEN x
    ELSE LET id == FreshId(x)
             delay == Max(0, x.self.intervalMs - (clock - x.self.expectedTime))
         IN [x EXCEPT !.timeouts = @ \cup {[id |-> id, due |-> clock + delay]},
                      !.self.timeoutId = id]

\* A fault: stop() forgets to cancel the pending wake-up.
stopNoCancel(x) ==
    [x EXCEPT !.self.isRunning = FALSE, !.self.timeoutId = NullId, !.self.currentBeat = 1]

\* stop()
stop(x) ==
    LET a == [x EXCEPT !.self.isRunning = FALSE]
        b == IF a.self.timeoutId # NullId
             THEN [clearTimeout(a, a.self.timeoutId) EXCEPT !.self.timeoutId = NullId]
             ELSE a
    IN [b EXCEPT !.self.currentBeat = 1]

\* this.onBeat(beat): the callback is recorded; cb says what the callback does
\* before it returns: "return" (nothing to the scheduler) or "stop" (it calls stop()).
onBeat(x, beat, cb) ==
    LET a == [x EXCEPT !.calls = Append(@, beat)]
    IN IF cb = "stop" THEN stop(a) ELSE a

\* A fault: start() does not deliver the first beat.
startSilent(x, clock, cb, dur) ==
    IF x.self.isRunning THEN x
    ELSE tick([x EXCEPT !.self.isRunning = TRUE,
                        !.self.currentBeat = 1,
                        !.self.expectedTime = clock + x.self.intervalMs], clock)

\* start(); the callback takes dur ms.
start(x, clock, cb, dur) ==
    IF x.self.isRunning THEN x
    ELSE LET a == [x EXCEPT !.self.isRunning = TRUE,
                            !.self.currentBeat = 1,
                            !.self.expectedTime = clock + x.self.intervalMs]
             b == onBeat(a, a.self.currentBeat, cb)
         IN tick(b, clock + dur)

\* A fault: the beat index is not wrapped.
timeoutCallbackNoWrap(x, clock, cb, dur) ==
    LET a == [x EXCEPT !.self.currentBeat = @ + 1]
        b == onBeat(a, a.self.currentBeat, cb)
        c == [b EXCEPT !.self.expectedTime = @ + b.self.intervalMs]
    IN tick(c, clock + dur)

\* A fault: the expected time is moved to the time of the fire (the drift is kept).
timeoutCallbackReanchor(x, clock, cb, dur) ==
    LET n == x.self.currentBeat + 1
        a == [x EXCEPT !.self.currentBeat = IF n > x.self.beatsPerMeasure THEN 1 ELSE n]
        b == onBeat(a, a.self.currentBeat, cb)
        c == [b EXCEPT !.self.expectedTime = clock]
    IN tick(c, clock + dur)

\* The function tick() hands to setTimeout, run when the wake-up fires.
timeoutCallback(x, clock, cb, dur) ==
    LET n == x.self.currentBeat + 1
        a == [x EXCEPT !.self.currentBeat = IF n > x.self.beatsPerMeasure THEN 1 ELSE n]
        b == onBeat(a, a.self.currentBeat, cb)
        c == [b EXCEPT !.self.expectedTime = @ + b.self.intervalMs]
    IN tick(c, clock + dur)

\* A fault: updateBPM re-arms the pending wake-up.
updateBPMRearm(x, clock, newBpm) ==
    LET a == [x EXCEPT !.self.bpm = newBpm, !.self.intervalMs = IntervalMs(newBpm)]
    IN IF a.self.isRunning
       THEN tick([clearTimeout(a, a.self.timeoutId)
                     EXCEPT !.self.expectedTime = clock + a.self.intervalMs], clock)
       ELSE a

\* updateBPM(newBpm)
updateBPM(x, clock, newBpm) ==
    LET a == [x EXCEPT !.self.bpm = newBpm, !.self.intervalMs = IntervalMs(newBpm)]
    IN IF a.self.isRunning
       THEN [a EXCEPT !.self.expectedTime = clock + a.self.intervalMs]
       ELSE a

\* A fault: updateTimeSignature keeps the beat index and does not restart.
updateTimeSignatureNoRestart(x, clock, beatsPerMeasure, cb, dur) ==
    [x EXCEPT !.self.beatsPerMeasure = beatsPerMeasure]

\* updateTimeSignature(beatsPerMeasure)
updateTimeSignature(x, clock, beatsPerMeasure, cb, dur) ==
    LET a == [x EXCEPT !.self.beatsPerMeasure = beatsPerMeasure, !.self.currentBeat = 1]
    IN IF a.self.isRunning THEN start(stop(a), clock, cb, dur) ELSE a

\* A fault: pause() resets the beat index as stop() does.
pauseReset(x) == stop(x)

\* pause()
pause(x) ==
    LET a == [x EXCEPT !.self.isRunning = FALSE]
    IN IF a.self.timeoutId # NullId
       THEN [clearTimeout(a, a.self.timeoutId) EXCEPT !.self.timeoutId = NullId]
       ELSE a

\* A fault: resume() keeps the expected time of before the pause.
resumeNoAnchor(x, clock) ==
    IF x.self.isRunning THEN x
    ELSE tick([x EXCEPT !.self.isRunning = TRUE], clock)

\* A fault: resume() arms a wake-up whether the scheduler runs or not.
resumeAlways(x, clock) ==
    tick([x EXCEPT !.self.isRunning = TRUE,
                   !.self.expectedTime = clock + x.self.intervalMs], clock)

\* resume()
resume(x, clock) ==
    IF x.self.isRunning THEN x
    ELSE tick([x EXCEPT !.self.isRunning = TRUE,
                        !.self.expectedTime = clock + x.self.intervalMs], clock)

-----------------------------------------------------------------------------
(* VisualMetronome: the fields and the pure helpers *)

\* localStorage.getItem returns null: nothing was saved.
NoSetting == 0

\* The bounds changeBpm clamps the tempo to.
MinBpm == 20
MaxBpm == 150

Min(a, b) == IF a <= b THEN a ELSE b

\* constructor(), before loadSettings().  The component's currentBeat and
\* isDarkMode are display state: render() alone reads them, and handleBeatTick and
\* its flash-reset timeout write nothing else, so they are left out.
NewComponent == [isActive |-> FALSE, bpm |-> 60, timeSignature |-> "4/4"]

\* loadSettings(): a saved tempo (saveSettings writes the integer's decimal digits,
\* parseInt reads them back) and a saved time signature replace the defaults.
loadSettings(c, saved) ==
    LET a == IF saved.bpm # NoSetting THEN [c EXCEPT !.bpm = saved.bpm] ELSE c
    IN IF saved.timeSignature # "none"
       THEN [a EXCEPT !.timeSignature = saved.timeSignature]
       ELSE a

\* saveSettings()
saveSettings(c) == [bpm |-> c.bpm, timeSignature |-> c.timeSignature]

\* getBeatsPerMeasure()
getBeatsPerMeasure(c) == IF c.timeSignature = "4/4" THEN 4 ELSE 8

\* A fault: changeBpm without the clamp.
ClampBpmNone(bpm) == bpm

\* Math.max(20, Math.min(150, bpm))
ClampBpm(bpm) == Max(MinBpm, Min(MaxBpm, bpm))

-----------------------------------------------------------------------------
(* The scheduler driven by a harness: any call, in any order, at any time *)

\* The context a handler starts in.
Ctx == [self |-> timer, timeouts |-> timeouts, calls |-> <<>>]

\* The history kept about the schedule:
\*   from        "start" or "resume": the call that set the scheduler running
\*               ("none" while it is not running)
\*   tracked     the tempo has not changed since that call, and every beat since was
\*               armed less than one interval after its wake-up was due
\*   anchor      the time of that call
\*   fires       the wake-ups that fired since
\*   punctual    each of them fired at the very time it was due
\*   lastBeatAt  the time of the last onBeat call since the anchor
\*   prev        the index the next beat follows: that of the last onBeat call of
\*               this running period, or the index pause() kept (0: none)
\* anchor, fires, punctual and lastBeatAt are kept only while tracked.
Track(h) ==
    IF h.tracked THEN h
    ELSE [h EXCEPT !.anchor = NullTime, !.fires = 0, !.punctual = FALSE,
                   !.lastBeatAt = NullTime]

\* The history of a scheduler that is not running.
Idle(prev) ==
    [from |-> "none", tracked |-> FALSE, anchor |-> NullTime, fires |-> 0,
     punctual |-> FALSE, lastBeatAt |-> NullTime, prev |-> prev]

\* Which state of Stopped/Running/Paused a handler leaves the scheduler in:
\* Running when isRunning is set, else Stopped when stop() ran in it, else
\* Paused when pause() cleared isRunning in it, else what it was.
PhaseAfter(x, stopRan, pauseRan) ==
    IF x.self.isRunning THEN "Running"
    ELSE IF stopRan THEN "Stopped"
    ELSE IF pauseRan /\ timer.isRunning THEN "Paused"
    ELSE phase

\* What every handler writes back.
Commit(x, name, clock) ==
    /\ timer' = x.self
    /\ timeouts' = x.timeouts
    /\ now' = clock
    /\ op' = [name |-> name, calls |-> x.calls]

\* A callback takes time only while the clock may still advance.
Lasts(dur) == dur = 0 \/ now < MaxTime

\* start() on the scheduler of context c.
StartOn(c, cb, dur) ==
    LET x == start(c, now, cb, dur)
        ran == ~c.self.isRunning
    IN /\ Lasts(dur)
       /\ Commit(x, "start", IF ran THEN now + dur ELSE now)
       /\ phase' = PhaseAfter(x, ran /\ cb = "stop", FALSE)
       /\ sched' = IF ~ran THEN sched
                   ELSE IF x.self.isRunning
                        THEN Track([from |-> "start", tracked |-> dur < c.self.intervalMs,
                                    anchor |-> now, fires |-> 0, punctual |-> TRUE,
                                    lastBeatAt |-> now, prev |-> 1])
                        ELSE Idle(0)

\* start()
Start(cb, dur) == StartOn(Ctx, cb, dur)

\* stop()
Stop ==
    LET x == stop(Ctx)
    IN /\ Commit(x, "stop", now)
       /\ phase' = PhaseAfter(x, TRUE, FALSE)
       /\ sched' = Idle(0)

\* pause()
Pause ==
    LET x == pause(Ctx)
    IN /\ Commit(x, "pause", now)
       /\ phase' = PhaseAfter(x, FALSE, TRUE)
       /\ sched' = IF timer.isRunning THEN Idle(timer.currentBeat) ELSE sched

\* resume()
Resume ==
    LET x == resume(Ctx, now)
    IN /\ Commit(x, "resume", now)
       /\ phase' = PhaseAfter(x, FALSE, FALSE)
       /\ sched' = IF timer.isRunning THEN sched
                   ELSE [from |-> "resume", tracked |-> TRUE, anchor |-> now,
                         fires |-> 0, punctual |-> TRUE, lastBeatAt |-> NullTime,
                         prev |-> sched.prev]

\* updateBPM(newBpm)
UpdateBPM(newBpm) ==
    LET x == updateBPM(Ctx, now, newBpm)
    IN /\ Commit(x, "updateBPM", now)
       /\ phase' = PhaseAfter(x, FALSE, FALSE)
       /\ sched' = IF timer.isRunning THEN Track([sched EXCEPT !.tracked = FALSE])
                   ELSE sched

\* updateTimeSignature(beatsPerMeasure)
UpdateTimeSignature(beatsPerMeasure, cb, dur) ==
    LET x == updateTimeSignature(Ctx, now, beatsPerMeasure, cb, dur)
        ran == timer.isRunning
    IN /\ Lasts(dur)
       /\ Commit(x, "updateTimeSignature", IF ran THEN now + dur ELSE now)
       /\ phase' = PhaseAfter(x, ran, FALSE)
       /\ sched' = IF x.self.isRunning
                   THEN Track([from |-> "start", tracked |-> dur < timer.intervalMs,
                               anchor |-> now, fires |-> 0, punctual |-> TRUE,
                               lastBeatAt |-> now, prev |-> 1])
                   ELSE Idle(0)

\* The host runs a wake-up that is due: it leaves the table, then its function runs.
TimeoutFires(cb, dur) ==
    \E e \in timeouts :
        /\ e.due <= now
        /\ \A f \in timeouts : e.due <= f.due
        /\ Lasts(dur)
        /\ LET x == timeoutCallback([Ctx EXCEPT !.timeouts = @ \ {e}], now, cb, dur)
               late == (now - e.due) + dur
           IN /\ Commit(x, "timeout", now + dur)
              /\ phase' = PhaseAfter(x, cb = "stop", FALSE)
              /\ sched' = IF x.self.isRunning
                          THEN Track([sched EXCEPT
                                         !.tracked = @ /\ late < timer.intervalMs,
                                         !.fires = @ + 1,
                                         !.punctual = @ /\ now = e.due,
                                         !.lastBeatAt = now,
                                         !.prev = x.calls[Len(x.calls)]])
                          ELSE Idle(0)

\* Time passes.
Elapse(d) ==
    /\ now < MaxTime
    /\ now' = now + d
    /\ op' = [name |-> "elapse", calls |-> <<>>]
    /\ UNCHANGED <<timer, timeouts, phase, sched>>
    /\ UNCHANGED uiVars
    /\ UNCHANGED pitchVars

\* The scheduler as constructed by its owner.
Init ==
    /\ now = 0
    /\ \E bpm \in Tempos, beatsPerMeasure \in Signatures :
           timer = NewTimer(bpm, beatsPerMeasure)
    /\ timeouts = {}
    /\ op = [name |-> "new", calls |-> <<>>]
    /\ phase = "Stopped"
    /\ sched = Idle(0)
    /\ ui = NewComponent
    /\ hasTimer = TRUE
    /\ storage = [bpm |-> NoSetting, timeSignature |-> "none"]
    /\ hidden = FALSE
    /\ NoPitch

\* onBeat as the component registers it: it touches nothing of the scheduler.
Next ==
    \/ (\E dur \in CallbackDurations : Start("return", dur)) /\ UNCHANGED <<uiVars, pitchVars>>
    \/ Stop /\ UNCHANGED <<uiVars, pitchVars>>
    \/ Pause /\ UNCHANGED <<uiVars, pitchVars>>
    \/ Resume /\ UNCHANGED <<uiVars, pitchVars>>
    \/ (\E newBpm \in Tempos : UpdateBPM(newBpm)) /\ UNCHANGED <<uiVars, pitchVars>>
    \/ (\E b \in Signatures, dur \in CallbackDurations :
            UpdateTimeSignature(b, "return", dur)) /\ UNCHANGED <<uiVars, pitchVars>>
    \/ (\E dur \in CallbackDurations : TimeoutFires("return", dur)) /\ UNCHANGED <<uiVars, pitchVars>>
    \/ \E d \in ElapseSteps : Elapse(d)

Spec == Init /\ [][Next]_vars

\* What an onBeat callback may do before it returns.
CallbackBehaviours == {"return", "stop"}

\* onBeat as any callback that may call stop() on the scheduler.
NextCb ==
    \/ (\E cb \in CallbackBehaviours, dur \in CallbackDurations : Start(cb, dur))
           /\ UNCHANGED <<uiVars, pitchVars>>
    \/ Stop /\ UNCHANGED <<uiVars, pitchVars>>
    \/ Pause /\ UNCHANGED <<uiVars, pitchVars>>
    \/ Resume /\ UNCHANGED <<uiVars, pitchVars>>
    \/ (\E newBpm \in Tempos : UpdateBPM(newBpm)) /\ UNCHANGED <<uiVars, pitchVars>>
    \/ (\E b \in Signatures, cb \in CallbackBehaviours, dur \in CallbackDurations :
            UpdateTimeSignature(b, cb, dur)) /\ UNCHANGED <<uiVars, pitchVars>>
    \/ (\E cb \in CallbackBehaviours, dur \in CallbackDurations : TimeoutFires(cb, dur))
           /\ UNCHANGED <<uiVars, pitchVars>>
    \/ \E d \in ElapseSteps : Elapse(d)

SpecCb == Init /\ [][NextCb]_vars

-----------------------------------------------------------------------------
(* The scheduler driven by the VisualMetronome component *)

\* What localStorage may hold for 'metronome-bpm' when the component is built:
\* nothing, a tempo saveSettings wrote, or a number from elsewhere.
StoredBpms == {NoSetting, 15, 24, 600}

\* What localStorage may hold for 'metronome-time-signature'.
StoredSignatures == {"none", "8/8"}

\* The values of the time signature selector.
SignatureOptions == {"4/4", "8/8"}

\* The steps changeBpm is called with: the buttons' -1 and +1.
Deltas == {-1, 1}

\* The tempos of the model: those whose interval is a whole number of ms.
Exact(bpm) == bpm > 0 /\ 60000 % bpm = 0

\* this.timer = null
NullTimer ==
    [bpm |-> 0, beatsPerMeasure |-> 0, intervalMs |-> 0, expectedTime |-> NullTime,
     timeoutId |-> NullId, currentBeat |-> 0, isRunning |-> FALSE]

\* toggleMetronome()
ToggleMetronome ==
    IF ui.isActive
    THEN /\ IF hasTimer THEN Stop ELSE UNCHANGED schedVars
         /\ ui' = [ui EXCEPT !.isActive = FALSE]
         /\ UNCHANGED <<hasTimer, storage, hidden>>
    ELSE /\ StartOn([self |-> NewTimer(ui.bpm, getBeatsPerMeasure(ui)),
                     timeouts |-> timeouts, calls |-> <<>>], "return", 0)
         /\ hasTimer' = TRUE
         /\ ui' = [ui EXCEPT !.isActive = TRUE]
         /\ UNCHANGED <<storage, hidden>>

\* changeBpm(delta)
ChangeBpm(delta) ==
    LET newBpm == ClampBpm(ui.bpm + delta)
    IN /\ Exact(newBpm)
       /\ IF newBpm # ui.bpm
          THEN /\ ui' = [ui EXCEPT !.bpm = newBpm]
               /\ storage' = saveSettings(ui')
               /\ IF hasTimer THEN UpdateBPM(newBpm)
                  ELSE /\ op' = [name |-> "changeBpm", calls |-> <<>>]
                       /\ UNCHANGED <<now, timer, timeouts, phase, sched>>
          ELSE /\ op' = [name |-> "changeBpm", calls |-> <<>>]
               /\ UNCHANGED <<now, timer, timeouts, phase, sched, ui, storage>>
       /\ UNCHANGED <<hasTimer, hidden>>

\* handleTimeSignatureChange(e), e.target.value = value
HandleTimeSignatureChange(value) ==
    LET a == [ui EXCEPT !.timeSignature = value]
    IN /\ storage' = saveSettings(a)
       /\ IF hasTimer
          THEN UpdateTimeSignature(getBeatsPerMeasure(a), "return", 0)
          ELSE UNCHANGED schedVars
       /\ ui' = a
       /\ UNCHANGED <<hasTimer, hidden>>

\* visibilityHandler, run when document.hidden changes
VisibilityChange ==
    /\ hidden' = ~hidden
    /\ IF hidden'
       THEN IF hasTimer /\ timer.isRunning THEN Pause ELSE UNCHANGED schedVars
       ELSE IF hasTimer /\ ui.isActive THEN Resume ELSE UNCHANGED schedVars
    /\ UNCHANGED <<ui, hasTimer, storage>>

\* A wake-up of the component's scheduler fires; onBeat is handleBeatTick, which
\* returns without touching the scheduler.
BeatTimeoutFires ==
    /\ TimeoutFires("return", 0)
    /\ UNCHANGED uiVars

\* The component as constructed and connected, over any stored settings.
InitUI ==
    /\ now = 0
    /\ timer = NullTimer
    /\ timeouts = {}
    /\ op = [name |-> "new", calls |-> <<>>]
    /\ phase = "Stopped"
    /\ sched = Idle(0)
    /\ \E b \in StoredBpms, t \in StoredSignatures :
           storage = [bpm |-> b, timeSignature |-> t]
    /\ ui = loadSettings(NewComponent, storage)
    /\ hasTimer = FALSE
    /\ hidden = FALSE
    /\ NoPitch

NextUI ==
    \/ ToggleMetronome /\ UNCHANGED pitchVars
    \/ (\E delta \in Deltas : ChangeBpm(delta)) /\ UNCHANGED pitchVars
    \/ (\E value \in SignatureOptions : HandleTimeSignatureChange(value))
           /\ UNCHANGED pitchVars
    \/ VisibilityChange /\ UNCHANGED pitchVars
    \/ BeatTimeoutFires /\ UNCHANGED pitchVars
    \/ \E d \in ElapseSteps : Elapse(d)

SpecUI == InitUI /\ [][NextUI]_vars

\* While the metronome is switched off its scheduler, if any, is not running and
\* has nothing pending (so a new scheduler never shares the table with an old one).
UiInactiveIsStopped == ~ui.isActive => (~timer.isRunning /\ timeouts = {})

\* The scheduler's tempo is the component's.
UiTempoShared == hasTimer => timer.bpm = ui.bpm

-----------------------------------------------------------------------------
(* Steps, as the claims name them *)

\* A wake-up fires (whatever the callback does and however long it takes).
FireStep == \E cb \in CallbackBehaviours, dur \in CallbackDurations : TimeoutFires(cb, dur)

\* start() is called.
StartStep == \E cb \in CallbackBehaviours, dur \in CallbackDurations : Start(cb, dur)

\* updateTimeSignature(b) is called with a callback that returns normally.
SignatureStep(b) == \E dur \in CallbackDurations : UpdateTimeSignature(b, "return", dur)

\* The wake-ups that are pending.
Pending == Cardinality(timeouts)

-----------------------------------------------------------------------------
(* C1 *)

\* C1: with zero jitter (every wake-up fires at the time it is due) and the tempo
\* unchanged since start() at t0, start() delivers beat 1 at t0 and the wake-up
\* that delivers beat n (n >= 2) fires at t0 + (n-1) * intervalMs.  The wake-up
\* that fires when sched.fires wake-ups fired before it delivers beat sched.fires + 2.
C1_BeatTimes ==
    [][/\ (StartStep /\ ~timer.isRunning) => op'.calls = <<1>>
       /\ (FireStep /\ sched.from = "start" /\ sched.tracked /\ sched'.punctual)
             => now = sched.anchor + (sched.fires + 1) * timer.intervalMs]_vars

-----------------------------------------------------------------------------
(* C2 *)

\* C2: while the tempo is unchanged and every beat was armed less than one interval
\* after its wake-up was due (sched.tracked), expectedTime has advanced by exactly
\* one interval per fire since the anchor and the pending wake-up's target time is
\* fixed by the anchor and the number of fires alone: it does not depend on how
\* late the earlier wake-ups fired.
C2_NoCumulativeDrift ==
    (timer.isRunning /\ sched.tracked) =>
        /\ timer.expectedTime = sched.anchor + (sched.fires + 1) * timer.intervalMs
        /\ \A e \in timeouts :
               e.due = timer.expectedTime + timer.intervalMs

\* A schedule that is still followed after two fires, one of them late.
C2_Witness ==
    /\ timer.isRunning /\ sched.tracked /\ ~sched.punctual
    /\ sched.fires >= 2 /\ Pending = 1

-----------------------------------------------------------------------------
(* C3 *)

\* C3: in every reachable state, 1 <= currentBeat <= beatsPerMeasure.
C3_BeatInRange ==
    /\ 1 <= timer.currentBeat
    /\ timer.currentBeat <= timer.beatsPerMeasure

\* The index has just wrapped from 8 to 1 in an eight-beat cycle.
C3_Witness ==
    /\ op.name = "timeout" /\ op.calls = <<1>>
    /\ timer.beatsPerMeasure = 8 /\ timer.currentBeat = 1
    /\ sched.from = "start" /\ sched.fires = 8

-----------------------------------------------------------------------------
(* C4 *)

\* C4: start() on a scheduler that is not running calls onBeat(1) before it
\* returns, and in the running period it begins every wake-up that fires calls
\* onBeat exactly once, with the index (previous index mod beatsPerMeasure) + 1.
C4_BeatSequence ==
    [][/\ (StartStep /\ ~timer.isRunning) => op'.calls = <<1>>
       /\ (FireStep /\ sched.from = "start")
             => op'.calls = <<(sched.prev % timer.beatsPerMeasure) + 1>>]_vars

\* The fifth beat of a four-beat cycle has been delivered as beat 1.
C4_Witness ==
    /\ op.name = "timeout" /\ op.calls = <<1>>
    /\ timer.beatsPerMeasure = 4 /\ sched.from = "start" /\ sched.fires = 4

-----------------------------------------------------------------------------
(* C5 *)

\* stop() has left the scheduler stopped: not running, index 1, nothing pending.
StoppedClean ==
    /\ ~timer.isRunning
    /\ timer.currentBeat = 1
    /\ timer.timeoutId = NullId
    /\ timeouts = {}

\* stop() is called by the onBeat callback of this step.
CallbackStops ==
    \/ \E dur \in CallbackDurations : TimeoutFires("stop", dur)
    \/ \E dur \in CallbackDurations : Start("stop", dur) /\ ~timer.isRunning
    \/ \E b \in Signatures, dur \in CallbackDurations :
           UpdateTimeSignature(b, "stop", dur) /\ timer.isRunning

\* C5: stop(), called directly in any state or from inside onBeat while start(),
\* updateTimeSignature() or a wake-up is being processed, leaves the scheduler
\* Stopped; a Stopped scheduler is not running, has index 1 and no wake-up
\* pending; and while it is Stopped no onBeat call happens unless start() is
\* called (resume() makes none itself: it can only arm a wake-up).
C5_StopIsFinal ==
    /\ [](phase = "Stopped" => StoppedClean)
    /\ [][/\ (Stop \/ CallbackStops) => phase' = "Stopped"
          /\ (phase = "Stopped" /\ op'.calls # <<>>) => StartStep]_vars

\* stop() was called from inside onBeat while a wake-up was being processed.
C5_Witness ==
    /\ op.name = "timeout" /\ op.calls # <<>>
    /\ phase = "Stopped" /\ StoppedClean

-----------------------------------------------------------------------------
(* C6 *)

\* C6: pause() on a running scheduler with index k cancels the pending wake-up
\* and keeps k; a Paused scheduler has no wake-up pending, so no onBeat call is
\* made however long the pause lasts; every beat of the running period that
\* resume() begins has the index (previous index mod beatsPerMeasure) + 1, the
\* first one following the kept k; and with zero jitter and the tempo unchanged
\* the first beat comes no sooner than one interval after resume() and each
\* later one exactly one interval after the beat before (no replay, no burst).
C6_PauseResume ==
    /\ [](phase = "Paused" => (~timer.isRunning /\ timeouts = {}))
    /\ [][/\ (Pause /\ timer.isRunning)
                => /\ phase' = "Paused"
                   /\ timeouts' = {}
                   /\ timer'.currentBeat = timer.currentBeat
          /\ (phase = "Paused" /\ phase' = "Paused") => op'.calls = <<>>
          /\ (Resume /\ phase = "Paused")
                => (op'.calls = <<>> /\ Pending' = 1 /\ timer'.currentBeat = timer.currentBeat)
          /\ (FireStep /\ sched.from = "resume" /\ sched.prev # 0)
                => op'.calls = <<(sched.prev % timer.beatsPerMeasure) + 1>>
          /\ (FireStep /\ sched.from = "resume" /\ sched.tracked /\ sched'.punctual)
                => IF sched.fires = 0
                   THEN now >= sched.anchor + timer.intervalMs
                   ELSE now = sched.lastBeatAt + timer.intervalMs]_vars

\* Paused at index 2 for longer than two intervals, resumed, and two beats
\* delivered on time since: the second of them is beat 4.
C6_Witness ==
    /\ op.name = "timeout" /\ op.calls = <<4>>
    /\ sched.from = "resume" /\ sched.tracked /\ sched.punctual /\ sched.fires = 2
    /\ sched.anchor > 4 * timer.intervalMs

-----------------------------------------------------------------------------
(* C7 *)

\* C7: updateBPM(newBpm) on a running scheduler changes bpm, intervalMs
\* (60000 / newBpm) and expectedTime (now + the new interval) and nothing else:
\* the pending wake-up stays in the table with the time it was armed for, and
\* currentBeat, isRunning, beatsPerMeasure and timeoutId are unchanged; on a
\* scheduler that is not running it changes bpm and intervalMs only.
C7_UpdateBpmFrame ==
    [][\A newBpm \in Tempos :
          UpdateBPM(newBpm) =>
              /\ timeouts' = timeouts
              /\ phase' = phase
              /\ timer' = [timer EXCEPT
                              !.bpm = newBpm,
                              !.intervalMs = 60000 \div newBpm,
                              !.expectedTime = IF timer.isRunning
                                               THEN now + (60000 \div newBpm)
                                               ELSE @]]_vars

\* updateBPM changed the tempo of a running scheduler, and the pending wake-up is
\* still due at the time the old tempo armed it for.
C7_Witness ==
    /\ op.name = "updateBPM" /\ timer.isRunning /\ timer.bpm = 120
    /\ \E e \in timeouts : e.due > timer.expectedTime + timer.intervalMs

-----------------------------------------------------------------------------
(* C8 *)

\* C8: updateTimeSignature(b), the callback returning normally, leaves
\* beatsPerMeasure = b and currentBeat = 1; on a running scheduler it ends
\* Running at the same tempo with exactly one wake-up pending and has called
\* onBeat(1) once; on a Paused or Stopped scheduler it leaves the state, the
\* timer table and the other fields alone and calls nothing.
C8_UpdateTimeSignature ==
    [][\A b \in Signatures :
          SignatureStep(b) =>
              /\ timer'.beatsPerMeasure = b
              /\ timer'.currentBeat = 1
              /\ timer'.bpm = timer.bpm /\ timer'.intervalMs = timer.intervalMs
              /\ IF timer.isRunning
                 THEN /\ timer'.isRunning /\ phase' = "Running"
                      /\ Pending' = 1
                      /\ \A e \in timeouts' : e.id = timer'.timeoutId
                      /\ op'.calls = <<1>>
                 ELSE /\ ~timer'.isRunning /\ phase' = phase
                      /\ timeouts' = timeouts
                      /\ op'.calls = <<>>]_vars

\* A running eight-beat scheduler at index 3 or later was switched to four beats.
C8_Witness ==
    /\ op.name = "updateTimeSignature" /\ op.calls = <<1>>
    /\ timer.isRunning /\ timer.beatsPerMeasure = 4 /\ Pending = 1
    /\ now >= 3 * timer.intervalMs

-----------------------------------------------------------------------------
(* C9 *)

\* C9: the scheduler starts running from Stopped only by start() and from Paused
\* only by resume(); resume() on a Stopped scheduler leaves it Stopped, arms no
\* wake-up and calls nothing; pause() on a Stopped scheduler leaves it Stopped.
C9_StateMachine ==
    [][/\ (~timer.isRunning /\ timer'.isRunning)
             => \/ phase = "Stopped" /\ StartStep
                \/ phase = "Paused" /\ Resume
       /\ (Resume /\ phase = "Stopped")
             => (phase' = "Stopped" /\ timeouts' = {} /\ op'.calls = <<>>)
       /\ (Pause /\ phase = "Stopped") => phase' = "Stopped"]_vars

-----------------------------------------------------------------------------
(* C10 *)

\* The supported tempos.
InRange(bpm) == MinBpm <= bpm /\ bpm <= MaxBpm

\* C10: after every changeBpm, whatever tempo the component started with (also
\* one outside 20..150 read from storage) and whatever step was asked for, the
\* component's tempo, the tempo it saved and the tempo of its scheduler are
\* within [20, 150]; and a tempo within the bounds never leaves them.
C10_TempoClamped ==
    /\ [](op.name \in {"changeBpm", "updateBPM"} =>
              /\ InRange(ui.bpm)
              /\ (hasTimer => InRange(timer.bpm))
              /\ (storage.bpm # NoSetting => InRange(storage.bpm)))
    /\ [][/\ InRange(ui.bpm) => InRange(ui'.bpm)
          /\ (hasTimer /\ InRange(timer.bpm)) => InRange(timer'.bpm)]_vars

\* A scheduler started at 15 beats per minute (its wake-up is armed 8000 ms
\* ahead) has just been given a tempo by changeBpm: the lower bound.
C10_Witness ==
    /\ op.name = "updateBPM" /\ hasTimer /\ timer.isRunning
    /\ timer.bpm = MinBpm /\ ui.bpm = MinBpm
    /\ \E e \in timeouts : e.due = now + 8000

-----------------------------------------------------------------------------
(* JavaScript Number arithmetic (IEEE 754 binary64, round to nearest, ties to  *)
(* even) on the positive values the smoothing of the pipeline computes with.   *)
(* A number is [m, e], standing for m * 2^e, where the significand m is a      *)
(* natural number of exactly Precision bits held as a sequence of limbs, least *)
(* significant first; the empty significand stands for null.                   *)

\* The size of one limb of a significand.
LimbBits == 15
Limb == 32768

\* The bits of a binary64 significand.
Precision == 53

\* The one element of a set of one element (it is computed once).
Once(S) == CHOOSE r \in S : TRUE

RECURSIVE Pow2(_)
Pow2(k) == IF k = 0 THEN 1 ELSE 2 * Pow2(k - 1)

LimbAt(a, i) == IF i <= Len(a) THEN a[i] ELSE 0

\* The limbs of the sum of s[i] * Limb^(i-1) plus the carry c.
RECURSIVE Carry(_, _)
Carry(s, c) ==
    IF s = <<>>
    THEN IF c = 0 THEN <<>> ELSE IF c < Limb THEN <<c>> ELSE <<c % Limb, c \div Limb>>
    ELSE Once({<<t % Limb>> \o Carry(r, t \div Limb) : t \in {s[1] + c}, r \in {Tail(s)}})

\* Without its leading zero limbs.
Trim(a) ==
    LET top == CHOOSE i \in 0..Len(a) :
                   (i = 0 \/ a[i] # 0) /\ \A j \in (i + 1)..Len(a) : a[j] = 0
    IN SubSeq(a, 1, top)

BigAdd(a, b) ==
    Trim(Carry([i \in 1..Max(Len(a), Len(b)) |-> LimbAt(a, i) + LimbAt(b, i)], 0))

\* a - b, for a >= b
RECURSIVE Borrow(_, _)
Borrow(s, c) ==
    IF s = <<>> THEN <<>>
    ELSE Once({<<(d + Limb) % Limb>> \o Borrow(r, IF d < 0 THEN 1 ELSE 0) :
               d \in {s[1] - c}, r \in {Tail(s)}})

BigSub(a, b) == Trim(Borrow([i \in 1..Len(a) |-> a[i] - LimbAt(b, i)], 0))

\* a * k, for a limb k
BigScale(a, k) == Trim(Carry([i \in 1..Len(a) |-> a[i] * k], 0))

\* a * Limb^n
LimbShift(a, n) == IF a = <<>> THEN a ELSE [i \in 1..n |-> 0] \o a

RECURSIVE BigSum(_)
BigSum(rows) ==
    IF rows = <<>> THEN <<>>
    ELSE Once({BigAdd(rows[1], r) : r \in {BigSum(Tail(rows))}})

BigMul(a, b) == BigSum([j \in 1..Len(b) |-> LimbShift(BigScale(a, b[j]), j - 1)])

RECURSIVE BitsOf(_)
BitsOf(n) == IF n = 0 THEN 0 ELSE 1 + BitsOf(n \div 2)

BitLen(a) == IF a = <<>> THEN 0 ELSE (Len(a) - 1) * LimbBits + BitsOf(a[Len(a)])

\* a * 2^k
ShiftLeft(a, k) == LimbShift(BigScale(a, Pow2(k % LimbBits)), k \div LimbBits)

\* a \div 2^k
ShiftRight(a, k) ==
    LET drop == k \div LimbBits
        r == Pow2(k % LimbBits)
        n == Len(a) - drop
    IN Trim([i \in 1..Max(n, 0) |->
                (a[i + drop] \div r) + (LimbAt(a, i + drop + 1) % r) * (Limb \div r)])

\* bit i of a (bit 0 is the least significant)
BitAt(a, i) == (LimbAt(a, i \div LimbBits + 1) \div Pow2(i % LimbBits)) % 2

\* the bits of a below bit k are all zero
LowZero(a, k) ==
    /\ \A i \in 1..(k \div LimbBits) : LimbAt(a, i) = 0
    /\ LimbAt(a, k \div LimbBits + 1) % Pow2(k % LimbBits) = 0

\* The binary64 number nearest to a * 2^e, ties to even, for a of n bits.
RoundBits(a, n, e) ==
    LET k == n - Precision
    IN IF n = 0 THEN [m |-> <<>>, e |-> 0]
       ELSE IF k <= 0 THEN [m |-> ShiftLeft(a, -k), e |-> e + k]
       ELSE Once({IF BitLen(r) > Precision
                  THEN [m |-> ShiftRight(r, 1), e |-> e + k + 1]
                  ELSE [m |-> r, e |-> e + k] :
                  r \in {Once({IF BitAt(a, k - 1) = 1
                                    /\ (~LowZero(a, k - 1) \/ BitAt(q, 0) = 1)
                               THEN BigAdd(q, <<1>>) ELSE q :
                               q \in {ShiftRight(a, k)}})}})

RoundNumber(a, e) == Once({RoundBits(b, BitLen(b), e) : b \in {a}})

\* The Number of the integer n.
NumberOf(n) == RoundNumber(Carry(<<n>>, 0), 0)

\* x * y
NumberMul(x, y) == Once({RoundNumber(BigMul(a.m, b.m), a.e + b.e) : a \in {x}, b \in {y}})

\* x + y
NumberAdd(x, y) ==
    Once({RoundNumber(BigAdd(ShiftLeft(a.m, a.e - Min(a.e, b.e)),
                             ShiftLeft(b.m, b.e - Min(a.e, b.e))), Min(a.e, b.e)) :
          a \in {x}, b \in {y}})

\* x - y, for x >= y
NumberSub(x, y) ==
    Once({RoundNumber(BigSub(ShiftLeft(a.m, a.e - Min(a.e, b.e)),
                             ShiftLeft(b.m, b.e - Min(a.e, b.e))), Min(a.e, b.e)) :
          a \in {x}, b \in {y}})

\* a <= b, for significands
BigLeq(a, b) ==
    LET n == Max(Len(a), Len(b))
        top == CHOOSE i \in 0..n :
                   /\ i = 0 \/ LimbAt(a, i) # LimbAt(b, i)
                   /\ \A j \in (i + 1)..n : LimbAt(a, j) = LimbAt(b, j)
    IN top = 0 \/ LimbAt(a, top) < LimbAt(b, top)

\* x <= y
NumberLeq(x, y) ==
    Once({BigLeq(a, b) : a \in {ShiftLeft(x.m, x.e - Min(x.e, y.e))},
                         b \in {ShiftLeft(y.m, y.e - Min(x.e, y.e))}})

\* null, as a Number
NullNumber == [m |-> <<>>, e |-> 0]

-----------------------------------------------------------------------------
(* AudioProcessor: the capture and analysis pipeline *)

\* A reference that is null.
NullRef == 0

\* The gain levels of the monitor path, in tenths: muted, and audible (0.8).
Muted == 0
MonitorGain == 8

\* smoothingFactor, 0.3 as a Number
smoothingFactor == [m |-> <<13107, 26214, 19660, 153>>, e |-> -54]

\* The bounds of the plausible vocal range, Hz.
MinHz == 60
MaxHz == 1000

\* autoCorrelate's "no pitch"
NoPitchHz == -1

\* The start() calls made on the pipelines in one behaviour.
MaxStarts == 2

\* The voiced ticks in a row the analyser delivers.
MaxRun == 2

\* What autoCorrelate may return for the samples of a tick (Hz): no pitch, a
\* pitch below the range, one inside it, the upper end of the range, one above.
RawEstimates == {NoPitchHz, 49, 63, MaxHz, 1470}

\* new AudioProcessor(onPitchUpdate)
NewProcessor ==
    [audioContext |-> NullRef, analyser |-> NullRef, microphone |-> NullRef,
     gainNode |-> NullRef, pitchDetector |-> NullRef, animationFrame |-> NullRef,
     stream |-> NullRef, monitoringEnabled |-> FALSE,
     smoothedFrequency |-> NullNumber]

\* The host's audio before any acquisition:
\*   asked   the getUserMedia calls made
\*   made    the streams granted; the k-th grant makes stream, context and nodes k
\*   live    the streams whose tracks are capturing
\*   open    the audio contexts that are not closed
\*   gain    the gain level of each gain node
NoMedia == [asked |-> 0, made |-> 0, live |-> {}, open |-> {}, gain |-> <<>>]

\* detectPitch(dataArray), given what autoCorrelate returned for the buffer:
\* sampleRate / lag, as the fraction num / den, or -1 (num = -1, den = 1).
InVocalRange(num, den) == num > 0 /\ num >= MinHz * den /\ num <= MaxHz * den

\* The Numbers of the estimates (computed once).
Heard == {hz \in RawEstimates : hz > 0}
NumberTable == [hz \in Heard |-> NumberOf(hz)]

\* detectPitch without the range filter
detectPitchAny(hz) == IF hz > 0 THEN NumberTable[hz] ELSE NullNumber

detectPitch(hz) == IF InVocalRange(hz, 1) THEN NumberTable[hz] ELSE NullNumber

\* A handler of processor x.me runs in the context x:
\*   self     the fields of the processor
\*   frames   the host's pending animation frames
\*   held     the frame ids the other processors hold
\*   media    the host's audio
\*   out      the values handed to onPitchUpdate so far in this handler
\*   stopped  stop() ran in this handler
\* requestAnimationFrame(detect): an id no pending frame has and nobody holds.
requestAnimationFrame(x) ==
    LET used == {f.id : f \in x.frames} \cup x.held \cup {x.self.animationFrame}
        id == CHOOSE i \in 1..(Cardinality(used) + 1) :
                  i \notin used /\ \A j \in 1..(i - 1) : j \in used
    IN [x EXCEPT !.frames = @ \cup {[id |-> id, owner |-> x.me]},
                 !.self.animationFrame = id]

cancelAnimationFrame(x, id) ==
    [x EXCEPT !.frames = {f \in @ : f.id # id}]

\* stop()
stopProcessor(x) ==
    LET a == IF x.self.animationFrame # NullRef
             THEN [cancelAnimationFrame(x, x.self.animationFrame)
                       EXCEPT !.self.animationFrame = NullRef]
             ELSE x
        b == IF a.self.gainNode # NullRef THEN [a EXCEPT !.self.gainNode = NullRef] ELSE a
        c == IF b.self.microphone # NullRef
             THEN [b EXCEPT !.self.microphone = NullRef] ELSE b
        d == IF c.self.analyser # NullRef THEN [c EXCEPT !.self.analyser = NullRef] ELSE c
        e == IF d.self.stream # NullRef
             THEN [d EXCEPT !.media.live = @ \ {d.self.stream}, !.self.stream = NullRef]
             ELSE d
        f == IF e.self.audioContext # NullRef
             THEN [e EXCEPT !.media.open = @ \ {e.self.audioContext},
                            !.self.audioContext = NullRef]
             ELSE e
    IN [f EXCEPT !.self.smoothedFrequency = NullNumber,
                 !.self.monitoringEnabled = FALSE,
                 !.stopped = TRUE]

\* this.onPitchUpdate(value), where the callback returns (cb = "return") or
\* calls stop() on the processor before it returns (cb = "stop")
onPitchUpdate(x, value, cb) ==
    LET a == [x EXCEPT !.out = Append(@, value)]
    IN IF cb = "stop" THEN stopProcessor(a) ELSE a

\* 1 - this.smoothingFactor
retainedFactor == NumberSub(NumberOf(1), smoothingFactor)

\* The smoothing of detect: update(frequency) on the smoothed value s.
updateExact(s, frequency) == frequency

update(s, frequency) ==
    IF s = NullNumber THEN frequency
    ELSE NumberAdd(NumberMul(s, retainedFactor), NumberMul(frequency, smoothingFactor))

\* The smoothed values up to k voiced ticks after an unset one, and update on
\* them (computed once).
RECURSIVE Smoothed(_)
Smoothed(k) ==
    IF k = 0 THEN {NullNumber}
    ELSE Once({P \cup {update(s, NumberTable[hz]) : s \in P, hz \in Heard} :
               P \in {Smoothed(k - 1)}})

UpdateTable == [s \in Smoothed(MaxRun), hz \in Heard |-> update(s, NumberTable[hz])]

smooth(s, frequency) ==
    UpdateTable[s, CHOOSE hz \in Heard : NumberTable[hz] = frequency]

\* detect that keeps the smoothed value over a tick without pitch
detectKeep(x, hz, cb) ==
    LET frequency == detectPitch(hz)
        a == IF frequency # NullNumber
             THEN Once({onPitchUpdate([x EXCEPT !.self.smoothedFrequency = s], s, cb) :
                        s \in {smooth(x.self.smoothedFrequency, frequency)}})
             ELSE onPitchUpdate(x, NullNumber, cb)
    IN requestAnimationFrame(a)

\* detect(), one analysis tick, when the analyser exists; hz is what autoCorrelate
\* made of the samples the analyser delivered.
detect(x, hz, cb) ==
    LET frequency == detectPitch(hz)
        a == IF frequency # NullNumber
             THEN Once({onPitchUpdate([x EXCEPT !.self.smoothedFrequency = s], s, cb) :
                        s \in {smooth(x.self.smoothedFrequency, frequency)}})
             ELSE [onPitchUpdate(x, NullNumber, cb)
                       EXCEPT !.self.smoothedFrequency = NullNumber]
    IN requestAnimationFrame(a)

\* start() from the point where getUserMedia has resolved with a stream: the k-th
\* grant; it builds the graph and runs the first tick (detectPitchLoop).
startProcessor(x, hz, cb) ==
    LET k == x.media.made + 1
        a == [x EXCEPT !.media.made = k,
                       !.media.live = @ \cup {k},
                       !.media.open = @ \cup {k},
                       !.media.gain = Append(@, Muted),
                       !.self.stream = k,
                       !.self.audioContext = k,
                       !.self.analyser = k,
                       !.self.microphone = k,
                       !.self.gainNode = k,
                       !.self.pitchDetector = k]
    IN detect(a, hz, cb)

\* enableMonitoring()
enableMonitoring(x) ==
    IF x.self.gainNode # NullRef
    THEN [x EXCEPT !.media.gain[x.self.gainNode] = MonitorGain,
                   !.self.monitoringEnabled = TRUE]
    ELSE x

\* disableMonitoring()
disableMonitoring(x) ==
    IF x.self.gainNode # NullRef
    THEN [x EXCEPT !.media.gain[x.self.gainNode] = Muted,
                   !.self.monitoringEnabled = FALSE]
    ELSE x

-----------------------------------------------------------------------------
(* The pipeline driven by a harness: any call, in any order, the host resolving *)
(* acquisitions and running animation frames in between                        *)

\* How getUserMedia may resolve.
Acquisitions == {"granted", "denied"}

\* The context a handler of processor i starts in.
AudioCtx(i) ==
    [self |-> aps[i], me |-> i, frames |-> frames,
     held |-> {aps[j].animationFrame : j \in DOMAIN aps \ {i}},
     media |-> media, out |-> <<>>, stopped |-> FALSE]

\* The history kept about the pipelines:
\*   name      the last operation, on processor owner
\*   out       the values it handed to onPitchUpdate
\*   hz        what autoCorrelate returned in its tick (NoPitchHz when it ran none)
\*   ticked    it ran a tick to the end
\*   threw     its tick threw (the analyser was null)
\*   result    what start() resolved to, "true" or "false" ("none" for the other
\*             operations)
\*   fromStop  the start() that resolved was called right after stop() on it,
\*             and no call was made on a pipeline while it awaited
\*   again     it was stop(), and so was the operation before it on that processor
\*   life      per processor: "New", then "Active" once a start() succeeded, and
\*             "Stopped" once stop() ran on it after that
\*   run       per processor: the voiced ticks since the smoothed value was unset
NoHistory(n) ==
    [name |-> "new", owner |-> 0, out |-> <<>>, hz |-> NoPitchHz, ticked |-> FALSE,
     threw |-> FALSE, result |-> "none", fromStop |-> FALSE, again |-> FALSE,
     life |-> [i \in 1..n |-> "New"], run |-> [i \in 1..n |-> 0]]

LifeAfter(x, granted) ==
    IF x.stopped
    THEN IF granted \/ pub.life[x.me] # "New" THEN "Stopped" ELSE "New"
    ELSE IF granted THEN "Active" ELSE pub.life[x.me]

RunAfter(x, voiced) ==
    IF x.self.smoothedFrequency = NullNumber THEN 0
    ELSE IF voiced THEN pub.run[x.me] + 1 ELSE pub.run[x.me]

\* What every handler of a processor writes back.
AudioCommit(x, name, hz, ticked, result, fromStop) ==
    /\ aps' = [aps EXCEPT ![x.me] = x.self]
    /\ frames' = x.frames
    /\ media' = x.media
    /\ pub' = [name |-> name, owner |-> x.me, out |-> x.out, hz |-> hz,
               ticked |-> ticked, threw |-> FALSE, result |-> result,
               fromStop |-> fromStop,
               again |-> name = "stop" /\ pub.name = "stop" /\ pub.owner = x.me,
               life |-> [pub.life EXCEPT ![x.me] = LifeAfter(x, result = "true")],
               run |-> [pub.run EXCEPT ![x.me] = RunAfter(x, ticked /\ InVocalRange(hz, 1))]]

\* A tick may be voiced only while the run of voiced ticks is short.
MayTick(i, hz) == InVocalRange(hz, 1) => pub.run[i] < MaxRun

\* The start() calls that await getUserMedia: [owner, n, fromStop], the n-th
\* start() call, made on processor owner; fromStop: it was called right after a
\* stop() on the processor, and no call has been made on a pipeline since.
\* Called(S): the pending calls S after another call was made.
Called(S) == {[q EXCEPT !.fromStop = FALSE] : q \in S}

\* start() up to its await: it asks the host for the microphone.
StartCall(i) ==
    /\ media.asked < MaxStarts
    /\ starts' = Called(starts) \cup {[owner |-> i, n |-> media.asked + 1,
                                       fromStop |-> pub.name = "stop" /\ pub.owner = i]}
    /\ media' = [media EXCEPT !.asked = @ + 1]
    /\ pub' = [pub EXCEPT !.name = "startCall", !.owner = i, !.out = <<>>,
                          !.hz = NoPitchHz, !.ticked = FALSE, !.threw = FALSE,
                          !.result = "none", !.fromStop = FALSE, !.again = FALSE]
    /\ UNCHANGED <<aps, frames>>

\* start() from its await on: getUserMedia resolved (granted) or rejected.
StartResolve(p, how, hz, cb) ==
    /\ p \in starts
    /\ starts' = IF how = "granted" /\ cb = "stop" THEN Called(starts \ {p})
                 ELSE starts \ {p}
    /\ IF how = "granted"
       THEN /\ MayTick(p.owner, hz)
            /\ \E x \in {startProcessor(AudioCtx(p.owner), hz, cb)} :
                   AudioCommit(x, "start", hz, TRUE, "true", p.fromStop)
       ELSE AudioCommit(AudioCtx(p.owner), "start", NoPitchHz, FALSE, "false", p.fromStop)

\* stop()
ProcessorStop(i) ==
    /\ \E x \in {stopProcessor(AudioCtx(i))} :
           AudioCommit(x, "stop", NoPitchHz, FALSE, "none", FALSE)
    /\ starts' = Called(starts)

\* enableMonitoring()
EnableMonitoring(i) ==
    /\ \E x \in {enableMonitoring(AudioCtx(i))} :
           AudioCommit(x, "enableMonitoring", NoPitchHz, FALSE, "none", FALSE)
    /\ starts' = Called(starts)

\* disableMonitoring()
DisableMonitoring(i) ==
    /\ \E x \in {disableMonitoring(AudioCtx(i))} :
           AudioCommit(x, "disableMonitoring", NoPitchHz, FALSE, "none", FALSE)
    /\ starts' = Called(starts)

\* The host runs a pending animation frame: it leaves the table, then detect runs.
\* With the analyser gone, detect throws on its first line and nothing else happens.
FrameFires(f, hz, cb) ==
    /\ f \in frames
    /\ starts' = IF aps[f.owner].analyser # NullRef /\ cb = "stop" THEN Called(starts)
                 ELSE starts
    /\ IF aps[f.owner].analyser = NullRef
       THEN /\ frames' = frames \ {f}
            /\ pub' = [pub EXCEPT !.name = "tick", !.owner = f.owner, !.out = <<>>,
                                  !.hz = NoPitchHz, !.ticked = FALSE, !.threw = TRUE,
                                  !.result = "none", !.fromStop = FALSE, !.again = FALSE]
            /\ UNCHANGED <<aps, media>>
       ELSE /\ MayTick(f.owner, hz)
            /\ \E x \in {detect([AudioCtx(f.owner) EXCEPT !.frames = @ \ {f}], hz, cb)} :
                   AudioCommit(x, "tick", hz, TRUE, "none", FALSE)

\* What the scheduler, the components and the estimator are while a pipeline is
\* checked on its own.
NoScheduler ==
    /\ now = 0
    /\ timer = NullTimer
    /\ timeouts = {}
    /\ op = [name |-> "new", calls |-> <<>>]
    /\ phase = "Stopped"
    /\ sched = Idle(0)
    /\ ui = NewComponent
    /\ hasTimer = FALSE
    /\ storage = [bpm |-> NoSetting, timeSignature |-> "none"]
    /\ hidden = FALSE

otherVars == <<now, timer, timeouts, op, phase, sched, ui, hasTimer, storage, hidden,
               vm, buffer, pitch>>

\* One processor, as constructed.
InitAudio ==
    /\ NoScheduler
    /\ aps = <<NewProcessor>>
    /\ frames = {}
    /\ starts = {}
    /\ media = NoMedia
    /\ pub = NoHistory(1)
    /\ vm = <<>>
    /\ buffer = <<>>
    /\ pitch = <<>>

\* What a pitch callback may do before it returns.
PitchCallbacks == {"return", "stop"}

NextAudio ==
    \/ StartCall(1) /\ UNCHANGED otherVars
    \/ (\E p \in starts, how \in Acquisitions, hz \in RawEstimates, cb \in PitchCallbacks :
            StartResolve(p, how, hz, cb)) /\ UNCHANGED otherVars
    \/ ProcessorStop(1) /\ UNCHANGED otherVars
    \/ EnableMonitoring(1) /\ UNCHANGED otherVars
    \/ DisableMonitoring(1) /\ UNCHANGED otherVars
    \/ (\E f \in frames, hz \in RawEstimates, cb \in PitchCallbacks :
            FrameFires(f, hz, cb)) /\ UNCHANGED otherVars

SpecAudio == InitAudio /\ [][NextAudio]_vars

-----------------------------------------------------------------------------
(* Either subsystem on its own: a behaviour is one of the scheduler (with      *)
(* callbacks that may call stop()) or one of the pipeline                      *)

InitEither == Init \/ InitAudio

NextEither ==
    \/ aps = <<>> /\ NextCb
    \/ aps # <<>> /\ NextAudio

SpecEither == InitEither /\ [][NextEither]_vars

-----------------------------------------------------------------------------
\* C11: stop() is idempotent on both subsystems.  A stop() on a scheduler that is
\* Stopped (never started, or stopped and not set running since; in particular
\* directly after a stop()) changes no field of the scheduler and nothing in the
\* host's timer table; a stop() on a pipeline directly after a stop(), or on one
\* that no start() ever succeeded on, changes no field of the pipeline, no pending
\* frame and nothing of the host's audio.
C11_StopIdempotent ==
    [][/\ (aps = <<>> /\ Stop /\ phase = "Stopped")
           => (timer' = timer /\ timeouts' = timeouts)
       /\ (aps # <<>> /\ pub'.name = "stop" /\ pub'.owner = 1
               /\ ((pub.name = "stop" /\ pub.owner = 1) \/ pub.life[1] = "New"))
           => (aps' = aps /\ frames' = frames /\ media' = media)]_vars

\* stop() ran on a pipeline that had been started, directly after another stop().
C11_Witness ==
    /\ aps # <<>>
    /\ pub.name = "stop" /\ pub.again
    /\ pub.life[1] = "Stopped"
    /\ media.made > 0 /\ media.live = {} /\ media.open = {}

-----------------------------------------------------------------------------
\* The processor holds none of what start() acquired, and the host holds no
\* capturing stream and no open audio context.
Released(i) ==
    /\ aps[i].stream = NullRef
    /\ aps[i].audioContext = NullRef
    /\ aps[i].microphone = NullRef
    /\ aps[i].analyser = NullRef
    /\ aps[i].gainNode = NullRef
    /\ media.live = {}
    /\ media.open = {}

\* C12: once stop() has run on a started pipeline (from outside or from inside the
\* pitch callback of a tick), and until a start() succeeds again, everything
\* acquired is released and the references are cleared, no analysis tick runs and
\* the pitch callback is not invoked.
C12_StopIsFinal ==
    /\ [](pub.life[1] = "Stopped" => Released(1))
    /\ [][pub.life[1] = "Stopped" =>
              /\ pub'.name # "tick"
              /\ pub'.result # "true" => pub'.out = <<>>]_vars

-----------------------------------------------------------------------------
(* VoiceMonitor: the component that owns the pipeline of a session.  Its wake   *)
(* lock, its reference player and what it renders are left out: none of them    *)
(* reaches the pipeline.                                                        *)

\* new VoiceMonitor(); alerted: startSession has told the user that it failed.
NewMonitor ==
    [sessionActive |-> FALSE, monitoringEnabled |-> FALSE, audioProcessor |-> NullRef,
     currentNote |-> "--", alerted |-> FALSE]

\* handlePitchUpdate(frequency), for each value of out in turn
RECURSIVE handlePitchUpdate(_, _)
handlePitchUpdate(v, out) ==
    IF out = <<>> THEN v
    ELSE handlePitchUpdate([v EXCEPT !.currentNote =
                                IF out[1] # NullNumber THEN "note" ELSE "--"], Tail(out))

\* startSession() that takes the session as started whatever start() resolved to
startSessionDoneAlways(v, success) == [v EXCEPT !.sessionActive = TRUE]

\* startSession() from its await on, start() having resolved to success
startSessionDone(v, success) ==
    IF success THEN [v EXCEPT !.sessionActive = TRUE] ELSE [v EXCEPT !.alerted = TRUE]

\* startSession() up to its await: a new AudioProcessor, and start() on it
StartSession ==
    LET i == Len(aps) + 1
    IN /\ media.asked < MaxStarts
       /\ aps' = Append(aps, NewProcessor)
       /\ vm' = [vm EXCEPT !.audioProcessor = i]
       /\ starts' = Called(starts)
                        \cup {[owner |-> i, n |-> media.asked + 1, fromStop |-> FALSE]}
       /\ media' = [media EXCEPT !.asked = @ + 1]
       /\ pub' = [pub EXCEPT !.name = "startCall", !.owner = i, !.out = <<>>,
                             !.hz = NoPitchHz, !.ticked = FALSE, !.threw = FALSE,
                             !.result = "none", !.fromStop = FALSE, !.again = FALSE,
                             !.life = Append(@, "New"), !.run = Append(@, 0)]
       /\ UNCHANGED frames

\* start() resolves, and startSession() goes on from its await.
SessionResolve(p, how, hz) ==
    /\ StartResolve(p, how, hz, "return")
    /\ vm' = startSessionDone(handlePitchUpdate(vm, pub'.out), how = "granted")

\* stopSession()
StopSession ==
    /\ IF vm.audioProcessor # NullRef
       THEN ProcessorStop(vm.audioProcessor)
       ELSE /\ pub' = [pub EXCEPT !.name = "stopSession", !.owner = 0, !.out = <<>>,
                                  !.hz = NoPitchHz, !.ticked = FALSE, !.threw = FALSE,
                                  !.result = "none", !.fromStop = FALSE, !.again = FALSE]
            /\ starts' = Called(starts)
            /\ UNCHANGED <<aps, frames, media>>
    /\ vm' = [vm EXCEPT !.audioProcessor = NullRef, !.sessionActive = FALSE,
                        !.monitoringEnabled = FALSE, !.currentNote = "--"]

\* The host runs a pending animation frame of a processor of the component.
SessionFrame(f, hz) ==
    /\ FrameFires(f, hz, "return")
    /\ vm' = handlePitchUpdate(vm, pub'.out)

restVars == <<now, timer, timeouts, op, phase, sched, ui, hasTimer, storage, hidden,
              buffer, pitch>>

InitVoice ==
    /\ NoScheduler
    /\ aps = <<>>
    /\ frames = {}
    /\ starts = {}
    /\ media = NoMedia
    /\ pub = NoHistory(0)
    /\ vm = NewMonitor
    /\ buffer = <<>>
    /\ pitch = <<>>

NextVoice ==
    \/ StartSession /\ UNCHANGED restVars
    \/ (\E p \in starts, how \in Acquisitions, hz \in RawEstimates :
            SessionResolve(p, how, hz)) /\ UNCHANGED restVars
    \/ StopSession /\ UNCHANGED restVars
    \/ (\E f \in frames, hz \in RawEstimates : SessionFrame(f, hz)) /\ UNCHANGED restVars

SpecVoice == InitVoice /\ [][NextVoice]_vars

-----------------------------------------------------------------------------
\* C13: when getUserMedia rejects, start() resolves to false (it does not throw);
\* that start() builds nothing, schedules no frame and hands nothing to the pitch
\* callback; the component's sessionActive is not set; the user is told; and the
\* host is not asked again (no getUserMedia call, no new pending start()).  A
\* processor no start() succeeded on has no frame pending and holds nothing.
C13_AcquisitionFailure ==
    /\ [](\A i \in DOMAIN aps :
              pub.life[i] = "New" =>
                  /\ aps[i] = NewProcessor
                  /\ \A f \in frames : f.owner # i)
    /\ [][(pub'.name = "start" /\ pub'.result = "false") =>
              /\ aps' = aps /\ frames' = frames
              /\ media' = media
              /\ pub'.out = <<>> /\ ~pub'.ticked
              /\ vm'.sessionActive = vm.sessionActive
              /\ vm'.alerted
              /\ Cardinality(starts') = Cardinality(starts) - 1]_vars

\* The one start() of a session failed: nothing runs and the session is inactive.
C13_Witness ==
    /\ pub.name = "start" /\ pub.result = "false"
    /\ vm # <<>> /\ ~vm.sessionActive /\ vm.alerted
    /\ media.asked = 1 /\ media.made = 0
    /\ starts = {} /\ frames = {}

-----------------------------------------------------------------------------
\* C14: a start() called right after stop() on the pipeline, with no other call
\* made while it awaits, once it has succeeded, has made a clean session whatever
\* was called before the stop(): when it builds the graph the smoothed
\* estimate is unset, the monitoring flag is false after it and the gain of the
\* new gain node is 0, and a voiced first tick hands the callback exactly the
\* estimate of that tick.
C14_CleanRestart ==
    [][(pub'.name = "start" /\ pub'.result = "true" /\ pub'.fromStop) =>
          /\ aps[1].smoothedFrequency = NullNumber
          /\ ~aps'[1].monitoringEnabled
          /\ aps'[1].gainNode # NullRef => media'.gain[aps'[1].gainNode] = Muted
          /\ InVocalRange(pub'.hz, 1) => pub'.out = <<NumberTable[pub'.hz]>>]_vars

-----------------------------------------------------------------------------
\* The ends of the vocal range as Numbers (computed once).
MinNumber == NumberOf(MinHz)
MaxNumber == NumberOf(MaxHz)

\* v is null or a frequency of the vocal range.
Plausible(v) == v = NullNumber \/ (NumberLeq(MinNumber, v) /\ NumberLeq(v, MaxNumber))

\* C15: every value handed to the pitch callback is null or lies in [60, 1000] Hz,
\* and so does the smoothed estimate; a tick whose estimate is outside the range
\* hands null to the callback and leaves the smoothed estimate unset.
C15_PublishedInRange ==
    /\ \A k \in DOMAIN pub.out : Plausible(pub.out[k])
    /\ \A i \in DOMAIN aps : Plausible(aps[i].smoothedFrequency)
    /\ (pub.ticked /\ ~InVocalRange(pub.hz, 1)) =>
           /\ pub.out = <<NullNumber>>
           /\ aps[pub.owner].smoothedFrequency = NullNumber

\* A tick at the upper end of the range, after a lower estimate, published a
\* smoothed value below its own estimate.
C15_Witness ==
    /\ pub.name = "tick" /\ pub.ticked /\ pub.hz = MaxHz
    /\ pub.run[1] = 2
    /\ Len(pub.out) = 1 /\ pub.out[1] # NullNumber /\ pub.out[1] # MaxNumber
    /\ aps[1].smoothedFrequency = pub.out[1]

-----------------------------------------------------------------------------
\* The operation just done was a tick that ran to its end, with or without pitch.
Voiced(h) == h.ticked /\ InVocalRange(h.hz, 1)
Unvoiced(h) == h.ticked /\ ~InVocalRange(h.hz, 1)

-----------------------------------------------------------------------------
\* s * (1 - smoothingFactor) + x * smoothingFactor, every operation rounded, for
\* the smoothed values and estimates of the pipeline (computed once).
Weighted ==
    [s \in Smoothed(MaxRun) \ {NullNumber}, hz \in Heard |->
        NumberAdd(NumberMul(s, NumberSub(NumberOf(1), smoothingFactor)),
                  NumberMul(NumberTable[hz], smoothingFactor))]

\* The distance between x and the Numbers next to it.
Ulp(x) == RoundNumber(<<1>>, x.e)

\* y is x or a Number next to x.
Adjacent(x, y) ==
    IF NumberLeq(x, y) THEN NumberLeq(NumberSub(y, x), Ulp(x))
    ELSE NumberLeq(NumberSub(x, y), Ulp(x))

\* C17: a voiced tick on a smoothed value s publishes s*(1-a) + x*a with a = 0.3;
\* on an unset smoothed value it publishes exactly x; and an update with x on
\* the smoothed value x leaves it unchanged (x is a fixed point of update).
C17_SmoothingLaws ==
    [][Voiced(pub') =>
         LET s == aps[pub'.owner].smoothedFrequency
             x == NumberTable[pub'.hz]
         IN /\ s # NullNumber => pub'.out = <<Weighted[s, pub'.hz]>>
            /\ s = NullNumber => pub'.out = <<x>>
            /\ s = x => pub'.out = <<x>>]_vars

\* C17, as the arithmetic of the Numbers allows: the first two laws as stated,
\* every operation rounded to the nearest Number; an update with x on the
\* smoothed value x yields x or a Number next to x.
C17_SmoothingLawsRounded ==
    [][Voiced(pub') =>
         LET s == aps[pub'.owner].smoothedFrequency
             x == NumberTable[pub'.hz]
         IN /\ s # NullNumber => pub'.out = <<Weighted[s, pub'.hz]>>
            /\ s = NullNumber => pub'.out = <<x>>
            /\ s = x => Len(pub'.out) = 1 /\ Adjacent(x, pub'.out[1])]_vars

\* Two ticks in a row heard 63 Hz, and the second published the Number below 63.
C17_Witness ==
    /\ Voiced(pub) /\ pub.hz = 63 /\ pub.run[pub.owner] = 2
    /\ pub.out = <<NumberSub(NumberTable[63], Ulp(NumberTable[63]))>>

-----------------------------------------------------------------------------
(* PitchDetector: the estimator                                                *)
(* Samples are counted in units of 1/128, so that sample values, their squares *)
(* and the sums and quotients by powers of two the estimator forms are exact   *)
(* in the arithmetic of Numbers, and integers compute what the code computes.  *)

\* One sample unit: a sample of value v is the integer v * 128.
Unit == 128

\* Full-scale, zero and faint samples.
Samples == {-Unit, 0, 1, Unit}

\* buffer.length: empty, single-sample, two-sample and longer powers of two
Sizes == {0, 1, 2, 4, 8}

\* audioContext.sampleRate
SampleRates == {44100, 48000}

\* A frequency as the quotient num / den; autoCorrelate's -1; detectPitch's null.
NoEstimate == [num |-> NoPitchHz, den |-> 1]
NullFrequency == [num |-> 0, den |-> 1]

Abs(v) == IF v < 0 THEN -v ELSE v

\* rms += val * val, over the first n samples (in units of 1/128^2)
RECURSIVE SquareSum(_, _)
SquareSum(b, n) == IF n = 0 THEN 0 ELSE SquareSum(b, n - 1) + b[n] * b[n]

\* a gate that rejects only the buffer of zeros
tooQuietZero(b) == Len(b) > 0 /\ SquareSum(b, Len(b)) = 0

\* rms < 0.01, for rms = Math.sqrt(rms / SIZE); NaN for the empty buffer, and
\* NaN < 0.01 is false
tooQuiet(b) == Len(b) > 0 /\ 10000 * SquareSum(b, Len(b)) < Unit * Unit * Len(b)

\* correlation += Math.abs(buffer[i] - buffer[i + offset]), for i < n
RECURSIVE Difference(_, _, _)
Difference(b, offset, n) ==
    IF n = 0 THEN 0
    ELSE Difference(b, offset, n - 1) + Abs(b[n] - b[n + offset])

\* 1 - correlation, unnormalised, as a multiple of 1 / (128 * MAX_SAMPLES)
correlationRaw(b, offset) ==
    LET MAX_SAMPLES == Len(b) \div 2
    IN Unit * MAX_SAMPLES - MAX_SAMPLES * Difference(b, offset, MAX_SAMPLES)

\* correlation = 1 - (correlation / MAX_SAMPLES), as a multiple of
\* 1 / (128 * MAX_SAMPLES)
correlation(b, offset) ==
    LET MAX_SAMPLES == Len(b) \div 2
    IN Unit * MAX_SAMPLES - Difference(b, offset, MAX_SAMPLES)

\* the offsets of a loop that starts at 0
LagsFromZero(MAX_SAMPLES) == 0..(MAX_SAMPLES - 1)

\* for (let offset = 1; offset < MAX_SAMPLES; offset++)
Lags(MAX_SAMPLES) == 1..(MAX_SAMPLES - 1)

\* A fault: the loop keeps the later of two offsets of equal rise.
RECURSIVE ScanLast(_, _, _)
ScanLast(b, S, st) ==
    IF S = {} THEN st
    ELSE LET offset == CHOOSE o \in S : \A q \in S : o <= q
             MAX_SAMPLES == Len(b) \div 2
             c == correlation(b, offset)
             peak == 10 * c > 9 * Unit * MAX_SAMPLES /\ c > st.lastCorrelation
             foundGoodCorrelation == c - st.lastCorrelation
             better == peak /\ foundGoodCorrelation >= st.bestCorrelation
         IN ScanLast(b, S \ {offset},
                     [bestOffset |-> IF better THEN offset ELSE st.bestOffset,
                      bestCorrelation |-> IF better THEN foundGoodCorrelation
                                          ELSE st.bestCorrelation,
                      lastCorrelation |-> c])

\* The loop over the offsets S still to come, in increasing order; st holds
\* bestOffset, bestCorrelation and lastCorrelation.
RECURSIVE Scan(_, _, _)
Scan(b, S, st) ==
    IF S = {} THEN st
    ELSE LET offset == CHOOSE o \in S : \A q \in S : o <= q
             MAX_SAMPLES == Len(b) \div 2
             c == correlation(b, offset)
             peak == 10 * c > 9 * Unit * MAX_SAMPLES /\ c > st.lastCorrelation
             foundGoodCorrelation == c - st.lastCorrelation
             better == peak /\ foundGoodCorrelation > st.bestCorrelation
         IN Scan(b, S \ {offset},
                 [bestOffset |-> IF better THEN offset ELSE st.bestOffset,
                  bestCorrelation |-> IF better THEN foundGoodCorrelation
                                      ELSE st.bestCorrelation,
                  lastCorrelation |-> c])

\* autoCorrelate(buffer): what it returns (ret, and the offset it chose), the
\* offsets it evaluated and the correlation it computed for each.
autoCorrelate(b, sampleRate) ==
    LET MAX_SAMPLES == Len(b) \div 2
        st == Scan(b, Lags(MAX_SAMPLES),
                   [bestOffset |-> -1, bestCorrelation |-> 0,
                    lastCorrelation |-> Unit * MAX_SAMPLES])
    IN IF tooQuiet(b)
       THEN [ret |-> NoEstimate, lag |-> -1, lags |-> {}, scores |-> [o \in {} |-> 0]]
       ELSE [ret |-> IF st.bestOffset = -1 THEN NoEstimate
                     ELSE [num |-> sampleRate, den |-> st.bestOffset],
             lag |-> st.bestOffset,
             lags |-> Lags(MAX_SAMPLES),
             scores |-> [o \in Lags(MAX_SAMPLES) |-> correlation(b, o)]]

\* detectPitch(dataArray) of a detector made for sampleRate
detectPitchIn(dataArray, sampleRate) ==
    LET r == autoCorrelate(dataArray, sampleRate)
    IN [sampleRate |-> sampleRate, done |-> TRUE,
        ret |-> r.ret, lag |-> r.lag, lags |-> r.lags, scores |-> r.scores,
        out |-> IF r.ret.den > 0 /\ InVocalRange(r.ret.num, r.ret.den) THEN r.ret
                ELSE NullFrequency]

\* new PitchDetector(audioContext, sampleRate), before it is asked anything
NewDetector(sampleRate) ==
    [sampleRate |-> sampleRate, done |-> FALSE, ret |-> NoEstimate, lag |-> -1,
     lags |-> {}, scores |-> [o \in {} |-> 0], out |-> NullFrequency]

\* A detector and a buffer the analyser has filled.
InitEst ==
    /\ NoScheduler
    /\ aps = <<>>
    /\ frames = {}
    /\ starts = {}
    /\ media = NoMedia
    /\ pub = NoHistory(0)
    /\ vm = <<>>
    /\ buffer \in UNION {[1..n -> Samples] : n \in Sizes}
    /\ pitch \in {NewDetector(r) : r \in SampleRates}

\* this.pitchDetector.detectPitch(dataArray)
DetectPitch ==
    /\ ~pitch.done
    /\ pitch' = detectPitchIn(buffer, pitch.sampleRate)
    /\ UNCHANGED <<now, timer, timeouts, op, phase, sched, ui, hasTimer, storage,
                   hidden, aps, frames, starts, media, pub, vm, buffer>>

NextEst == DetectPitch

SpecEst == InitEst /\ [][NextEst]_vars

\* C18: a buffer whose root-mean-square amplitude is below 0.01, the buffer of
\* zeros included, makes autoCorrelate return -1 and detectPitch return null,
\* and no lag is evaluated for it.
C18_SilenceGate ==
    (/\ pitch.done
     /\ Len(buffer) > 0
     /\ 10000 * SquareSum(buffer, Len(buffer)) < Unit * Unit * Len(buffer)) =>
        /\ pitch.ret = NoEstimate
        /\ pitch.out = NullFrequency
        /\ pitch.lags = {}

\* The estimator answered for a faint buffer of period 2 that is not all zeros.
C18_Witness ==
    /\ pitch.done
    /\ buffer = <<1, 0, 1, 0, 1, 0, 1, 0>>
    /\ pitch.ret = NoEstimate /\ pitch.out = NullFrequency /\ pitch.lags = {}

\* C19: autoCorrelate evaluates no lag outside 1..N/2 and, for every buffer,
\* returns -1 or sampleRate / lag for a lag in 1..N/2; an empty, single-sample,
\* two-sample or silent buffer yields -1.
C19_NoZeroLag ==
    pitch.done =>
        LET N == Len(buffer)
        IN /\ pitch.lags \subseteq 1..(N \div 2)
           /\ \/ pitch.ret = NoEstimate
              \/ \E lag \in 1..(N \div 2) :
                     pitch.ret = [num |-> pitch.sampleRate, den |-> lag]
           /\ (N <= 2 \/ 10000 * SquareSum(buffer, N) < Unit * Unit * N) =>
                  pitch.ret = NoEstimate /\ pitch.out = NullFrequency

\* The estimator found the period of a full-scale buffer of period 2.
C19_Witness ==
    /\ pitch.done
    /\ buffer = <<Unit, -Unit, Unit, -Unit, Unit, -Unit, Unit, -Unit>>
    /\ pitch.ret = [num |-> pitch.sampleRate, den |-> 2]
    /\ pitch.lags = {1, 2, 3}

\* C20: for samples in [-1, 1], the similarity computed for every lag lies in
\* [0, 1], and it is 1 exactly when the first N/2 samples match the samples one
\* lag later.
C20_SimilarityRange ==
    pitch.done =>
        LET MAX_SAMPLES == Len(buffer) \div 2
        IN \A o \in pitch.lags :
               /\ 0 <= pitch.scores[o]
               /\ pitch.scores[o] <= Unit * MAX_SAMPLES
               /\ pitch.scores[o] = Unit * MAX_SAMPLES <=>
                      \A i \in 1..MAX_SAMPLES : buffer[i] = buffer[i + o]

\* C20, with the range the computation has: the similarity lies in [-1, 1],
\* and it is 1 exactly when the first N/2 samples match the samples one lag later.
C20_SimilaritySigned ==
    pitch.done =>
        LET MAX_SAMPLES == Len(buffer) \div 2
        IN \A o \in pitch.lags :
               /\ -(Unit * MAX_SAMPLES) <= pitch.scores[o]
               /\ pitch.scores[o] <= Unit * MAX_SAMPLES
               /\ pitch.scores[o] = Unit * MAX_SAMPLES <=>
                      \A i \in 1..MAX_SAMPLES : buffer[i] = buffer[i + o]

\* The similarities of a full-scale buffer of period 2: -1 at the odd lags and 1
\* at lag 2.
C20_Witness ==
    /\ pitch.done
    /\ Len(buffer) = 8
    /\ pitch.scores = [o \in {1, 2, 3} |-> IF o = 2 THEN 4 * Unit ELSE -(4 * Unit)]

-----------------------------------------------------------------------------
(* The estimator on sine buffers                                               *)
(* A Float32Array sample of magnitude at least 2^-7 is a multiple of 2^-31, so  *)
(* such samples are integers in units of 2^-fine for fine = 30 (amplitude 1)   *)
(* or 31 (amplitude 1/2).  For a buffer of 256 of them the differences, their   *)
(* sums, the quotients by MAX_SAMPLES = 128 and the correlations are multiples  *)
(* of 2^-38 below 2: the estimator's arithmetic is exact on them.  Sums exceed  *)
(* 31 bits and are kept as pairs <<hi, lo>> = hi * 2^15 + lo.                   *)

\* Math.fround(Math.sin(2 * Math.PI * 880 * i / 44100)) * 2^30, for i = 0, 1, ...
Sine880 ==
    <<
    0, 134271984, 266435984, 394417152, 516206272, 629891328, 733687552, 825965440,
    905276288, 970374976, 1020239552, 1054087040, 1071386240, 1071865408, 1055517184, 1022598080,
    973624896, 909366592, 830831936, 739253824, 636069952, 522900256, 401521440, 273839040,
    141857584, 7649050, -126679560, -259019408, -387292832, -509486048, -623680704, -728084096,
    -821057024, -901140032, -967075840, -1017829248, -1052603520, -1070852672, -1072290240, -1056893696,
    -1024904704, -976825408, -913410752, -835656256, -744782528, -642216320, -529567744, -408605376,
    -281228224, -149435984, -15297711, 119080720, 251589680, 380148864, 502740000, 617438464,
    722443648, 816107008, 896958080, 963727552, 1015367296, 1051066496, 1070264768, 1072660608,
    1058216576, 1027159296, 979976384, 917408576, 840438144, 750273472, 648330048, 536208352,
    415668576, 288603104, 157006800, 22945596, -111475832, -244147168, -372985600, -495968416,
    -611164928, -716766528, -811115520, -892730560, -960330432, -1012853824, -1049476160, -1069622528,
    -1072976576, -1059485760, -1029361792, -983077568, -921359808, -845177408, -755726336, -654410880,
    -542821760, -422710656, -295963360, -164569648, -30592316, 103865288, 236692288, 365803392,
    489171680, 604860288, 711053120, 806082880, 888457792, 956884544, 1010288960, 1047832576,
    1068926016, 1073238080, 1060701184, 1031512000, 986128896, 925264320, 849873728, 761140800,
    660458560, 549407552, 429731296, 303308576, 172124144, 38237484, -96249472, -229225392,
    -358602624, -482350080, -598524992, -705303552, -801009344, -884139904, -953390080, -1007672768,
    -1046135808, -1068175232, -1073445120, -1061862720, -1033609920, -989130176, -929121856, -854526976,
    -766516672, -666472704, -555965504, -436730144, -310638432, -179669904, -45880712, 88628776,
    221746864, 351383680, 475504032, 592159360, 699518208, 795895168, 879777152, 949847232,
    1005005504, 1044385920, 1067370240, 1073597696, 1062970432, 1035655360, 992081280, 932932224,
    859136832, 771853696, 672452992, 562495296, 443706816, 317952480, 187206560, 53521612,
    -81003576, -214257072, -344146880, -468633856, -585763648, -693697344, -790740544, -875369728,
    -946256256, -1002287232, -1042583040, -1066511168, -1073695808, -1064024192, -1037648256, -994982016,
    -936695232, -863703104, -777151488, -678399168, -568996480, -450660960, -325250432, -194733696,
    -61159796, 73374272, 206756416, 336892640, 461739904, 579338176, 687841344, 785545856,
    870917888, 942617152, 999518080, 1040727296, 1065597888, 1073739392, 1065023936, 1039588480,
    997832256, 940410752, 868225536, 782409856, 684310912, 575468800, 457592256, 332531872,
    202250960, 68794872, -65741240, -199245264, -329621280, -454822496, -572883328, -681950336,
    -780311232, -866421888, -938930304, -996698176, -1038818688, -1064630528, -1073728448, -1065969664,
    -1041475968, -1000631808, -944078528, -872703936, -787628544, -690187968, -581911936, -464500320,
    -339796416, -209757968, -76426464, 58104872, 191724000, 322333216, 447882048, 566399424,
    676024832, 775037056, 861881856, 935195712, 993827776, 1036857408, 1063609152, 1073663104,
    1066861312, 1043310592, 1003380672, 947698432, 877138048, 792807232, 696029952, 588325504,
    471384800, 347043712, 217254320, 84054176, -50465556, -184193008, -315028768, -440918816,
    -559886784, -670064960, -769723584, -857298112, -931413760, -990906880, -1034843456, -1062533824,
    -1073543232, -1067698752, -1045092224, -1006078528, -951270208, -881527616, -797945664, -701836608
    >>

\* Math.fround(Math.sin(2 * Math.PI * 1000 * i / 44100)) * 2^30, for i = 0, 1, ...
Sine1000 ==
    <<
    0, 152465232, 301840768, 445099456, 579338176, 701836608, 810112256, 901970944,
    975551168, 1029361792, 1062312320, 1073735040, 1063398400, 1031512000, 978721984, 906098048,
    815112000, 707607680, 585763648, 452049056, 309173696, 160032912, 7649050, -144889824,
    -294492512, -438127264, -572883328, -696029952, -805071424, -897798144, -972330880, -1027159296,
    -1061172288, -1073680512, -1064430592, -1033609920, -981843072, -910179136, -820070336, -713342848,
    -592159360, -458975744, -316490944, -167592464, -15297711, 137307056, 287129280, 431132832,
    566399424, 690187968, 799989760, 893579712, 969061248, 1024904704, 1059978368, 1073571520,
    1065408704, 1035655360, 984914368, 914214016, 824987136, 719041792, 598524992, 465879104,
    323792160, 175143520, 22945596, -129717320, -279751520, -424116512, -559886784, -684310912,
    -794867456, -889315968, -965742400, -1022598080, -1058730688, -1073408064, -1066332800, -1037648256,
    -987935680, -918202560, -829862016, -724704256, -604860288, -472758848, -331076928, -182685680,
    -30592316, 122121000, 272359520, 417078688, 553345728, 678399168, 789704832, 885007040,
    962374592, 1020239552, 1057429248, 1073190144, 1067202752, 1039588480, 990906880, 922144448,
    834694784, 730329920, 611164928, 479614592, 338344864, 190218576, 38237484, -114518488,
    -264953744, -410019680, -546776576, -672452992, -784502080, -880653248, -958957888, -1017829248,
    -1056074176, -1072917760, -1068018560, -1041475968, -993827776, -926039552, -839485184, -735918528,
    -617438464, -486445984, -345595648, -197741808, -45880712, 106910160, 257534496, 402939872,
    540179648, 666472704, 779259584, 876254784, 955492608, 1015367296, 1054665536, 1072590912,
    1068780160, 1043310592, 996698176, 929887680, 844232960, 741469824, 623680704, 493252704,
    352828928, 205255008, 53521612, -99296408, -250102176, -395839616, -533555360, -660458560,
    -773977536, -871811776, -951978752, -1012853824, -1053203328, -1072209664, -1069487552, -1045092224,
    -999518080, -933688640, -848937920, -746983424, -629891328, -500034400, -360044256, -212757808,
    -61159796, 91677616, 242657184, 388719264, 526903968, 654410880, 768656192, 867324608,
    948416640, 1010288960, 1051687680, 1071773952, 1070140672, 1046820864, 1002287232, 937442176,
    853599808, 752459200, 636069952, 506790720, 367241344, 220249792, 68794872, -84054176,
    -235199856, -381579200, -520225824, -648330048, -763295808, -862793344, -944806336, -1007672768,
    -1050118720, -1071283840, -1070739456, -1048496384, -1005005504, -941148160, -858218368, -757896768,
    -642216320, -513521312, -374419776, -227730608, -76426464, 76426464, 227730608, 374419776,
    513521312, 642216320, 757896768, 858218368, 941148160, 1005005504, 1048496384, 1070739456,
    1071283840, 1050118720, 1007672768, 944806336, 862793344, 763295808, 648330048, 520225824,
    381579200, 235199856, 84054176, -68794872, -220249792, -367241344, -506790720, -636069952,
    -752459200, -853599808, -937442176, -1002287232, -1046820864, -1070140672, -1071773952, -1051687680,
    -1010288960, -948416640, -867324608, -768656192, -654410880, -526903968, -388719264, -242657184,
    -91677616, 61159796, 212757808, 360044256, 500034400, 629891328, 746983424, 848937920,
    933688640, 999518080, 1045092224, 1069487552, 1072209664, 1053203328, 1012853824, 951978752,
    871811776, 773977536, 660458560, 533555360, 395839616, 250102176, 99296408, -53521612,
    -205255008, -352828928, -493252704, -623680704, -741469824, -844232960, -929887680, -996698176
    >>

\* The sines sampled: frequency, sample rate and samples.
Sines ==
    {[f |-> 880, sampleRate |-> 44100, samples |-> Sine880],
     [f |-> 1000, sampleRate |-> 44100, samples |-> Sine1000]}

\* dataArray.length of the sine buffers, and the first samples they may start at.
SineSize == 256
SineStarts == 0..39

\* The units of the samples: 2^-30 and 2^-31.
Fines == {30, 31}

\* Every sample of w is zero or of magnitude 2^-7 at least (in units of 2^-30).
Representable(w) == \A i \in DOMAIN w : w[i] = 0 \/ Abs(w[i]) >= Pow2(23)

\* Bounds of rms * rms * SIZE in units of 2^-20: the sum of the squares of the
\* samples cut to, and raised to, the next multiple of 2^-10.
\* (the loops over the samples are summed by halves)
RECURSIVE SquareFloor(_, _, _, _)
SquareFloor(b, fine, from, to) ==
    IF from > to THEN 0
    ELSE IF from = to
    THEN (Abs(b[to]) \div Pow2(fine - 10)) * (Abs(b[to]) \div Pow2(fine - 10))
    ELSE SquareFloor(b, fine, from, (from + to) \div 2)
             + SquareFloor(b, fine, (from + to) \div 2 + 1, to)

RECURSIVE SquareCeil(_, _, _, _)
SquareCeil(b, fine, from, to) ==
    IF from > to THEN 0
    ELSE IF from = to
    THEN (Abs(b[to]) \div Pow2(fine - 10) + 1) * (Abs(b[to]) \div Pow2(fine - 10) + 1)
    ELSE SquareCeil(b, fine, from, (from + to) \div 2)
             + SquareCeil(b, fine, (from + to) \div 2 + 1, to)

\* rms is clearly below or clearly above 0.01: 0.0001 * 2^20 lies between 104
\* and 105.
Decided(b, fine) ==
    \/ SquareCeil(b, fine, 1, Len(b)) <= 104 * Len(b)
    \/ SquareFloor(b, fine, 1, Len(b)) >= 105 * Len(b)

\* rms < 0.01
tooQuietFine(b, fine) == Len(b) > 0 /\ SquareCeil(b, fine, 1, Len(b)) <= 104 * Len(b)

\* correlation += Math.abs(buffer[i] - buffer[i + offset]), for i from from to
\* to: the high and the low parts of the terms
RECURSIVE DifferenceHi(_, _, _, _)
DifferenceHi(b, offset, from, to) ==
    IF from > to THEN 0
    ELSE IF from = to THEN Abs(b[to] - b[to + offset]) \div Limb
    ELSE DifferenceHi(b, offset, from, (from + to) \div 2)
             + DifferenceHi(b, offset, (from + to) \div 2 + 1, to)

RECURSIVE DifferenceLo(_, _, _, _)
DifferenceLo(b, offset, from, to) ==
    IF from > to THEN 0
    ELSE IF from = to THEN Abs(b[to] - b[to + offset]) % Limb
    ELSE DifferenceLo(b, offset, from, (from + to) \div 2)
             + DifferenceLo(b, offset, (from + to) \div 2 + 1, to)

\* the sum of line 38-40 as a pair
DifferenceFine(b, offset) ==
    Once({<<DifferenceHi(b, offset, 1, Len(b) \div 2) + (lo \div Limb), lo % Limb>> :
          lo \in {DifferenceLo(b, offset, 1, Len(b) \div 2)}})

\* x < y and x - y (for x >= y), on pairs
WideLess(x, y) == x[1] < y[1] \/ (x[1] = y[1] /\ x[2] < y[2])
WideSub(x, y) ==
    IF x[2] >= y[2] THEN <<x[1] - y[1], x[2] - y[2]>>
    ELSE <<x[1] - y[1] - 1, x[2] - y[2] + Limb>>

\* One round of the loop of line 34-52.  With d the sum of the differences,
\* correlation = 1 - d / MAX_SAMPLES: correlation > 0.9 is 10 * d < MAX_SAMPLES,
\* correlation > lastCorrelation is d < lastDifference, and
\* foundGoodCorrelation is (lastDifference - d) / MAX_SAMPLES.
StepFine(b, fine, offset, st) ==
    Once({IF /\ 10 * d[1] + ((10 * d[2]) \div Limb)
                   < (Len(b) \div 2) * Pow2(fine - LimbBits)
             /\ WideLess(d, st.lastDifference)
             /\ WideLess(st.bestCorrelation, WideSub(st.lastDifference, d))
          THEN [bestOffset |-> offset,
                bestCorrelation |-> WideSub(st.lastDifference, d),
                lastDifference |-> d]
          ELSE [st EXCEPT !.lastDifference = d] :
          d \in {DifferenceFine(b, offset)}})

\* The rounds for the offsets from from to to, in order: the first half of them,
\* then the second half.
RECURSIVE ScanFine(_, _, _, _, _)
ScanFine(b, fine, from, to, st) ==
    IF from > to THEN st
    ELSE IF from = to THEN StepFine(b, fine, from, st)
    ELSE Once({ScanFine(b, fine, (from + to) \div 2 + 1, to, h) :
               h \in {ScanFine(b, fine, from, (from + to) \div 2, st)}})

\* autoCorrelate(buffer), for a buffer in units of 2^-fine
autoCorrelateFine(b, fine, sampleRate) ==
    IF tooQuietFine(b, fine) THEN NoEstimate
    ELSE Once({IF st.bestOffset = -1 THEN NoEstimate
               ELSE [num |-> sampleRate, den |-> st.bestOffset] :
               st \in {ScanFine(b, fine, 1, Len(b) \div 2 - 1,
                               [bestOffset |-> -1, bestCorrelation |-> <<0, 0>>,
                                lastDifference |-> <<0, 0>>])}})

\* detectPitch(dataArray): what autoCorrelate returned (ret) and what it returns
detectPitchFine(dataArray, fine, sampleRate) ==
    Once({[ret |-> r,
           out |-> IF r.den > 0 /\ InVocalRange(r.num, r.den) THEN r ELSE NullFrequency] :
          r \in {autoCorrelateFine(dataArray, fine, sampleRate)}})

\* A detector and a buffer filled with a sine of frequency f: 256 samples of it
\* from some sample on, at amplitude 1 or 1/2.
InitSine ==
    /\ NoScheduler
    /\ aps = <<>>
    /\ frames = {}
    /\ starts = {}
    /\ media = NoMedia
    /\ pub = NoHistory(0)
    /\ vm = <<>>
    /\ \E s \in Sines, i0 \in SineStarts, fine \in Fines :
          /\ buffer = SubSeq(s.samples, i0 + 1, i0 + SineSize)
          /\ Representable(buffer)
          /\ Decided(buffer, fine)
          /\ pitch = [f |-> s.f, sampleRate |-> s.sampleRate, fine |-> fine,
                      done |-> FALSE, ret |-> NoEstimate, out |-> NullFrequency]

\* this.pitchDetector.detectPitch(dataArray)
DetectSine ==
    /\ ~pitch.done
    /\ \E r \in {detectPitchFine(buffer, pitch.fine, pitch.sampleRate)} :
           pitch' = [pitch EXCEPT !.done = TRUE, !.ret = r.ret, !.out = r.out]
    /\ UNCHANGED <<now, timer, timeouts, op, phase, sched, ui, hasTimer, storage,
                   hidden, aps, frames, starts, media, pub, vm, buffer>>

NextSine == DetectSine

SpecSine == InitSine /\ [][NextSine]_vars

\* C21: for a sine buffer of a frequency f of the vocal range, above the silence
\* threshold, autoCorrelate returns a frequency within 2% of f (and not -1).
C21_SineAccuracy ==
    pitch.done =>
        /\ pitch.ret # NoEstimate
        /\ 50 * Abs(pitch.ret.num - pitch.f * pitch.ret.den) <= pitch.f * pitch.ret.den

-----------------------------------------------------------------------------
\* C22: a visibility change calls pause() or resume() on the scheduler or
\* nothing, never stop() or start().  Hiding the page of an active metronome
\* leaves the scheduler Paused with its beat index kept and nothing pending;
\* showing it again leaves the scheduler Running with the same index, exactly
\* one wake-up pending and no beat fired, and the first beat after it has the
\* index that follows.  Visibility changes never set an inactive metronome
\* running.
C22_VisibilityPauses ==
    [][/\ hidden' # hidden =>
            /\ ui' = ui /\ hasTimer' = hasTimer
            /\ op'.calls = <<>>
            /\ timer'.currentBeat = timer.currentBeat
            /\ IF ~ui.isActive
               THEN /\ UNCHANGED schedVars
                    /\ ~timer'.isRunning /\ timeouts' = {}
               ELSE IF hidden'
               THEN /\ op'.name = "pause"
                    /\ phase' = "Paused" /\ ~timer'.isRunning /\ timeouts' = {}
               ELSE /\ op'.name = "resume"
                    /\ phase' = "Running" /\ timer'.isRunning /\ Pending' = 1
       /\ (op'.name = "timeout" /\ sched.from = "resume" /\ sched.fires = 0) =>
            op'.calls = <<IF timer.currentBeat >= timer.beatsPerMeasure THEN 1
                          ELSE timer.currentBeat + 1>>]_vars

\* The page was hidden after the third beat or later, shown again, and the
\* first beat since has fired.
C22_Witness ==
    /\ ~hidden /\ ui.isActive /\ timer.isRunning
    /\ op.name = "timeout" /\ sched.from = "resume" /\ sched.fires = 1
    /\ Len(op.calls) = 1 /\ op.calls[1] >= 4

-----------------------------------------------------------------------------
\* C23: resume() at time t on a Paused scheduler sets expectedTime to
\* t + intervalMs and arms one wake-up; with zero jitter and the tempo unchanged
\* the first beat after it fires at t + intervalMs, and every later beat one
\* interval after the beat before it.  (sched.prev is not 0 while the index that
\* pause() kept is the one the next beat follows.)
C23_ResumeTimes ==
    [][/\ (Resume /\ phase = "Paused") =>
             /\ timer'.expectedTime = now + timer.intervalMs
             /\ Pending' = 1
       /\ (/\ FireStep /\ sched.from = "resume" /\ sched.tracked /\ sched'.punctual
           /\ sched.fires = 0 /\ sched.prev # 0) =>
             now = sched.anchor + timer.intervalMs
       /\ (/\ FireStep /\ sched.from = "resume" /\ sched.tracked /\ sched'.punctual
           /\ sched.fires >= 1) =>
             now = sched.lastBeatAt + timer.intervalMs]_vars

-----------------------------------------------------------------------------
(* The scheduler with the beats since the last tempo change on record *)

\* The beats since updateBPM was last called on the running scheduler:
\*   stage     "none": no such call since the scheduler was set running;
\*             "updated": the wake-up pending at the call has not fired yet;
\*             "pending": it has fired; "after": a later one has
\*   last      the time of the last beat since (NullTime: none)
\*   punctual  every wake-up since fired at the time it was due, and its callback
\*             took no time
NoTempoChange == [stage |-> "none", last |-> NullTime, punctual |-> TRUE]

\* A wake-up that is due fires, the callback taking dur ms.
TempoFire(dur) ==
    /\ TimeoutFires("return", dur)
    /\ pub' = IF pub.stage = "none" THEN pub
              ELSE [stage |-> IF pub.stage = "updated" THEN "pending" ELSE "after",
                    last |-> now,
                    punctual |-> /\ pub.punctual /\ dur = 0
                                 /\ \A e \in timeouts : e.due = now]

\* updateBPM(newBpm)
TempoUpdate(newBpm) ==
    /\ UpdateBPM(newBpm)
    /\ pub' = IF timer.isRunning
              THEN [stage |-> "updated", last |-> NullTime, punctual |-> TRUE]
              ELSE pub

tempoRest == <<ui, hasTimer, storage, hidden, aps, frames, starts, media, vm, buffer, pitch>>

InitTempo ==
    /\ now = 0
    /\ \E bpm \in Tempos, beatsPerMeasure \in Signatures :
           timer = NewTimer(bpm, beatsPerMeasure)
    /\ timeouts = {}
    /\ op = [name |-> "new", calls |-> <<>>]
    /\ phase = "Stopped"
    /\ sched = Idle(0)
    /\ ui = NewComponent
    /\ hasTimer = TRUE
    /\ storage = [bpm |-> NoSetting, timeSignature |-> "none"]
    /\ hidden = FALSE
    /\ aps = <<>> /\ frames = {} /\ starts = {} /\ media = <<>>
    /\ vm = <<>> /\ buffer = <<>> /\ pitch = <<>>
    /\ pub = NoTempoChange

NextTempo ==
    \/ (\E dur \in CallbackDurations : Start("return", dur))
           /\ pub' = (IF timer.isRunning THEN pub ELSE NoTempoChange)
           /\ UNCHANGED tempoRest
    \/ Stop /\ pub' = NoTempoChange /\ UNCHANGED tempoRest
    \/ Pause /\ pub' = NoTempoChange /\ UNCHANGED tempoRest
    \/ Resume /\ pub' = (IF timer.isRunning THEN pub ELSE NoTempoChange)
           /\ UNCHANGED tempoRest
    \/ (\E newBpm \in Tempos : TempoUpdate(newBpm)) /\ UNCHANGED tempoRest
    \/ (\E b \in Signatures, dur \in CallbackDurations :
            UpdateTimeSignature(b, "return", dur))
           /\ pub' = NoTempoChange /\ UNCHANGED tempoRest
    \/ (\E dur \in CallbackDurations : TempoFire(dur)) /\ UNCHANGED tempoRest
    \/ \E d \in ElapseSteps : Elapse(d)

SpecTempo == InitTempo /\ [][NextTempo]_vars

\* C24: after updateBPM on a Running scheduler, with zero jitter, every beat that
\* follows the wake-up pending at the call fires exactly one interval of the new
\* tempo after the beat before it, the first of them included.
C24_NewTempoGoverns ==
    [][\A dur \in CallbackDurations :
          (/\ TempoFire(dur)
           /\ pub.stage \in {"pending", "after"}
           /\ pub'.punctual) =>
              now = pub.last + timer.intervalMs]_vars

-----------------------------------------------------------------------------
(* The monitoring flag and the gain stage *)

\* Processor x has a gain stage and its gain is level.
GainIs(x, level) == x.gainNode # NullRef /\ media.gain[x.gainNode] = level

\* C25: over any sequence of start, stop, enableMonitoring and disableMonitoring
\* the monitoring flag is true exactly when a gain stage exists and its gain is
\* the monitoring level, and false exactly when there is none or its gain is 0;
\* enableMonitoring and disableMonitoring on a processor without a gain stage
\* (before start(), after stop()) change nothing.
C25_FlagIsGain ==
    /\ [](\A i \in DOMAIN aps :
             /\ aps[i].monitoringEnabled <=> GainIs(aps[i], MonitorGain)
             /\ ~aps[i].monitoringEnabled <=>
                    (aps[i].gainNode = NullRef \/ GainIs(aps[i], Muted)))
    /\ [][\A i \in DOMAIN aps :
             ((EnableMonitoring(i) \/ DisableMonitoring(i)) /\ aps[i].gainNode = NullRef)
                 => UNCHANGED <<aps, frames, media>>]_vars

-----------------------------------------------------------------------------
(* Peak selection, against its definition *)

\* Loud samples close to each other, for lags that compete, beside zero and
\* faint ones.
PeakSamples == {0, 1, Unit - 4, Unit}

\* buffer.length
PeakSizes == {4, 8}

InitPeak ==
    /\ NoScheduler
    /\ aps = <<>>
    /\ frames = {}
    /\ starts = {}
    /\ media = NoMedia
    /\ pub = NoHistory(0)
    /\ vm = <<>>
    /\ buffer \in UNION {[1..n -> PeakSamples] : n \in PeakSizes}
    /\ pitch \in {NewDetector(r) : r \in SampleRates}

NextPeak == DetectPitch

SpecPeak == InitPeak /\ [][NextPeak]_vars

\* The similarity of lag L, that of lag 0 taken as 1 (as a multiple of
\* 1 / (128 * MAX_SAMPLES)).
Similarity(b, L) == IF L = 0 THEN Unit * (Len(b) \div 2) ELSE correlation(b, L)

\* The rise of the similarity at lag L over the lag before.
Rise(b, L) == Similarity(b, L) - Similarity(b, L - 1)

\* Lag L qualifies: its similarity exceeds 0.9 and that of the lag before.
Qualifies(b, L) ==
    /\ 10 * Similarity(b, L) > 9 * Unit * (Len(b) \div 2)
    /\ Rise(b, L) > 0

\* The lag of the largest rise among the candidates that qualify, the smallest
\* on ties; -1 when none qualifies.
ReferenceLag(b, candidates) ==
    LET Q == {L \in candidates : Qualifies(b, L)}
    IN IF Q = {} THEN -1
       ELSE CHOOSE L \in Q :
                \A K \in Q : Rise(b, L) > Rise(b, K) \/ (Rise(b, L) = Rise(b, K) /\ L <= K)

\* What autoCorrelate returns for a lag.
EstimateOf(lag, sampleRate) ==
    IF lag = -1 THEN NoEstimate ELSE [num |-> sampleRate, den |-> lag]

\* C26: over the candidate lags 1 up to N/2, with the similarity of lag 0 taken
\* as 1, autoCorrelate returns the lag of the largest rise in similarity among
\* the lags whose similarity exceeds 0.9 and that of the lag before, the smallest
\* on ties, and no pitch exactly when no lag qualifies.
C26_PeakSelection ==
    pitch.done =>
        pitch.ret = EstimateOf(ReferenceLag(buffer, 1..(Len(buffer) \div 2)),
                               pitch.sampleRate)

\* C26, with the lags the loop visits and the gate before it: for a buffer that
\* is not too quiet, the same over the candidate lags 1 up to N/2 - 1.
C26_PeakSelectionScanned ==
    (pitch.done /\ ~tooQuiet(buffer)) =>
        /\ pitch.lag = ReferenceLag(buffer, 1..(Len(buffer) \div 2 - 1))
        /\ pitch.ret = EstimateOf(pitch.lag, pitch.sampleRate)

\* Lags 2 and 3 of a buffer that is not too quiet qualify with the same rise, and
\* the estimator chose lag 2.
C26_Witness ==
    /\ pitch.done
    /\ buffer = <<0, 0, 1, 0, 1, 1, 0, Unit - 4>>
    /\ pitch.scores = <<509, 510, 511>>
    /\ pitch.lag = 2
    /\ pitch.ret = [num |-> pitch.sampleRate, den |-> 2]

-----------------------------------------------------------------------------
(* The wake-ups of the scheduler *)

\* C27: after any sequence of start, stop, pause, resume, updateBPM and
\* updateTimeSignature calls and timer firings (calls made outside the callback,
\* the callback returning normally) at most one wake-up is pending, and one is
\* pending exactly when the scheduler is running; start() and resume() on a
\* running scheduler fire no beat and add no wake-up.
C27_OneWakeUp ==
    /\ [](Pending <= 1 /\ (Pending = 1 <=> timer.isRunning))
    /\ [][(/\ timer.isRunning
           /\ \/ \E dur \in CallbackDurations : Start("return", dur)
              \/ Resume) =>
              /\ op'.calls = <<>>
              /\ timeouts' = timeouts
              /\ timer' = timer]_vars

\* resume() was called on a scheduler that start() had set running and that had
\* fired since: one wake-up is pending and no beat was played.
C27_Witness ==
    /\ op.name = "resume" /\ op.calls = <<>>
    /\ timer.isRunning /\ Pending = 1
    /\ sched.from = "start" /\ sched.fires >= 1

-----------------------------------------------------------------------------
(* stop() while start() awaits the microphone *)

\* C28: when stop() was called while the one start() of a pipeline was awaiting
\* getUserMedia, then once the acquisition has resolved and start() has completed
\* the pipeline is not active: no tick ran and no frame is pending, the pitch
\* callback was not invoked, and no capture stream or audio context is held.
C28_StopCancelsStart ==
    [][(/\ pub.name = "stop" /\ pub.owner = 1 /\ pub.life[1] = "New"
        /\ Cardinality(starts) = 1
        /\ pub'.name = "start") =>
           /\ ~pub'.ticked /\ pub'.out = <<>>
           /\ aps'[1].animationFrame = NullRef
           /\ \A f \in frames' : f.owner # 1
           /\ aps'[1].stream = NullRef /\ aps'[1].audioContext = NullRef
           /\ media'.live = {} /\ media'.open = {}]_vars

-----------------------------------------------------------------------------
(* The pipelines of the component *)

\* The pipeline instances that are active: they hold a capture stream or have an
\* analysis tick scheduled.
ActiveInstances ==
    {i \in DOMAIN aps : aps[i].stream # NullRef \/ \E f \in frames : f.owner = i}

\* C29: under any interleaving of startSession and stopSession, a second
\* startSession while an earlier one awaits the microphone included, at most one
\* pipeline instance is active at any time, and once stopSession has run (no
\* startSession after it) and every pending start() has resolved, none is.
C29_OneActiveInstance ==
    /\ Cardinality(ActiveInstances) <= 1
    /\ (vm.audioProcessor = NullRef /\ starts = {}) => ActiveInstances = {}

-----------------------------------------------------------------------------
(* VoiceMonitor.toggleMonitoring: it awaits detectHeadphones() before it turns   *)
(* monitoring on.  The component carries two more fields here:                  *)
(*   detecting  the toggleMonitoring calls that await detectHeadphones()        *)
(*   toggled    the toggleMonitoring calls made                                 *)
(* The headphone warning it shows is left out: nothing reads it.                *)

\* The toggleMonitoring calls made on the component in one behaviour.
MaxToggles == 2

\* What detectHeadphones() may resolve to (false also when enumerateDevices fails).
Detections == BOOLEAN

\* A handler of the component that calls nothing on a pipeline.
ComponentOnly(name) ==
    /\ pub' = [pub EXCEPT !.name = name, !.owner = 0, !.out = <<>>,
                          !.hz = NoPitchHz, !.ticked = FALSE, !.threw = FALSE,
                          !.result = "none", !.fromStop = FALSE, !.again = FALSE]
    /\ starts' = Called(starts)
    /\ UNCHANGED <<aps, frames, media>>

\* toggleMonitoring() up to its await, or to its end when monitoring is on
ToggleCall ==
    /\ vm.toggled < MaxToggles
    /\ IF ~vm.monitoringEnabled
       THEN /\ ComponentOnly("toggleMonitoring")
            /\ vm' = [vm EXCEPT !.detecting = @ + 1, !.toggled = @ + 1]
       ELSE /\ IF vm.audioProcessor # NullRef
               THEN DisableMonitoring(vm.audioProcessor)
               ELSE ComponentOnly("toggleMonitoring")
            /\ vm' = [vm EXCEPT !.monitoringEnabled = FALSE, !.toggled = @ + 1]

\* toggleMonitoring() from its await on, detectHeadphones() having resolved
ToggleResolve(hasHeadphones) ==
    /\ vm.detecting > 0
    /\ IF ~hasHeadphones
       THEN /\ ComponentOnly("toggleMonitoring")
            /\ vm' = [vm EXCEPT !.detecting = @ - 1]
       ELSE /\ IF vm.audioProcessor # NullRef
               THEN EnableMonitoring(vm.audioProcessor)
               ELSE ComponentOnly("toggleMonitoring")
            /\ vm' = [vm EXCEPT !.monitoringEnabled = TRUE, !.detecting = @ - 1]

InitToggle ==
    /\ NoScheduler
    /\ aps = <<>>
    /\ frames = {}
    /\ starts = {}
    /\ media = NoMedia
    /\ pub = NoHistory(0)
    /\ vm = NewMonitor @@ [detecting |-> 0, toggled |-> 0]
    /\ buffer = <<>>
    /\ pitch = <<>>

NextToggle ==
    \/ StartSession /\ UNCHANGED restVars
    \/ (\E p \in starts, how \in Acquisitions, hz \in RawEstimates :
            SessionResolve(p, how, hz)) /\ UNCHANGED restVars
    \/ StopSession /\ UNCHANGED restVars
    \/ (\E f \in frames, hz \in RawEstimates : SessionFrame(f, hz)) /\ UNCHANGED restVars
    \/ ToggleCall /\ UNCHANGED restVars
    \/ (\E hasHeadphones \in Detections : ToggleResolve(hasHeadphones))
           /\ UNCHANGED restVars

SpecToggle == InitToggle /\ [][NextToggle]_vars

\* C30: in every reachable state of the component, under any interleaving of
\* toggleMonitoring, startSession and stopSession, its monitoringEnabled is true
\* only if an active pipeline exists whose monitoring flag is true; so a
\* stopSession during the await of toggleMonitoring leaves it false once the
\* toggle has completed.
C30_MonitoringHasPipeline ==
    vm.monitoringEnabled =>
        \E i \in ActiveInstances : aps[i].monitoringEnabled

-----------------------------------------------------------------------------
(* start() failing after the microphone was acquired *)

\* The statements of start() after its await that may throw: new AudioContext(),
\* createAnalyser(), createMediaStreamSource(), createGain().
ThrowingSteps == {"context", "analyser", "source", "gain"}

\* The statements of start() that have run when step throws.
RanBefore(step) ==
    CASE step = "context"  -> {}
      [] step = "analyser" -> {"context"}
      [] step = "source"   -> {"context", "analyser"}
      [] step = "gain"     -> {"context", "analyser", "source"}

\* start() from the point where getUserMedia has resolved with a stream (the k-th
\* grant) up to the statement that throws; the catch block logs and returns
\* false.  Gain slot k stays at 0: gain node k is never made.
startProcessorThrows(x, step) ==
    LET k == x.media.made + 1
        ran == RanBefore(step)
    IN [x EXCEPT !.media.made = k,
                 !.media.live = @ \cup {k},
                 !.media.open = IF "context" \in ran THEN @ \cup {k} ELSE @,
                 !.media.gain = Append(@, Muted),
                 !.self.stream = k,
                 !.self.audioContext = IF "context" \in ran THEN k ELSE @,
                 !.self.analyser = IF "analyser" \in ran THEN k ELSE @,
                 !.self.microphone = IF "source" \in ran THEN k ELSE @]

\* start() from its await on: the stream is granted and step throws.
StartThrows(p, step) ==
    /\ p \in starts
    /\ starts' = starts \ {p}
    /\ \E x \in {startProcessorThrows(AudioCtx(p.owner), step)} :
           AudioCommit(x, "start", NoPitchHz, FALSE, "false", p.fromStop)

InitFail == InitAudio

NextFail ==
    \/ NextAudio
    \/ (\E p \in starts, step \in ThrowingSteps : StartThrows(p, step))
           /\ UNCHANGED otherVars

SpecFail == InitFail /\ [][NextFail]_vars

\* C31: when start() fails after the stream was acquired (the audio context or
\* the graph construction throws), then once it has reported the failure the
\* pipeline holds no hardware resource: the tracks of the acquired stream are
\* stopped, its context is not open, and the stream and context references are
\* cleared, with no stop() called.
C31_FailureReleases ==
    [][(pub'.name = "start" /\ pub'.result = "false" /\ media'.made > media.made) =>
          /\ aps'[1].stream = NullRef
          /\ aps'[1].audioContext = NullRef
          /\ media'.made \notin media'.live
          /\ media'.made \notin media'.open]_vars

====
